---- MODULE Spec2Model ----
(***************************************************************************)
(* Uzumaki (spiralizer-v2): the incremental line-accumulation renderer     *)
(* (SpiralGeometry, SpiralRenderer, PostProcessor) and the generative      *)
(* music engine's lookahead scheduler and voice pool (SpiralMusicEngine,   *)
(* AudioManager, useAudio), with the play/pause state of the visual loop   *)
(* (useSpiralAnimation).                                                   *)
(*                                                                         *)
(* Pixels are abstracted to the set of segment labels whose ink a surface  *)
(* holds: the empty set is the cleared (black) surface.  Segments are      *)
(* labelled 1, 2, 3, ... in the order they are appended since the last     *)
(* reset of the segment buffer.  Times are integer milliseconds.           *)
(***************************************************************************)
EXTENDS Integers, Sequences, FiniteSets

\* ------------------------------------------------------------------ bounds

\* Capacity of the segment buffer (50 000 in the program, scaled down).
MAX_SEGMENTS == 4
\* Segments appended between two resets of the buffer.
MaxAppends == 6
\* Largest canvas width in CSS pixels.
MaxDim == 3
MaxSteps == 2
\* Date.now() at which the runs of the beat detector stop (ms).
MaxClock == 2400
\* setSource calls in one run.
MaxRequests == 3

\* ------------------------------------------------------------- renderer state

VARIABLES
  segments,        \* SpiralGeometry.segments: slot 0..MAX_SEGMENTS-1 -> label (0: never written)
  segmentCount,    \* SpiralGeometry.segmentCount (= geometry.instanceCount)
  accumTarget,     \* ink held by SpiralRenderer.accumTarget
  screen,          \* ink on the visible canvas
  width, height,   \* SpiralRenderer.width / height (CSS pixels)
  dpr2,            \* renderer.getPixelRatio() in halves (1: 0.5, 2: 1.0)
  postProcessor,   \* SpiralRenderer.postProcessor !== null
  renderSettings,  \* SpiralRenderer.renderSettings (NoSettings: null)
  trailTargetA,    \* ink held by PostProcessor.trailTargetA
  trailTargetB,    \* ink held by PostProcessor.trailTargetB
  trailWriteIdx,   \* PostProcessor.trailWriteIdx
  \* history of the run, read by the properties only
  totalAppended,   \* appendSegment calls since the last reset
  newSinceRender,  \* appendSegment calls since the last render()
  lastNewCount,    \* after render(): newSinceRender as it was when it started (else 0)
  lastDrawCount,   \* after render(): instances it drew into accumTarget (else 0)
  lastEvicted,     \* after appendSegment: it ran _dropOldest (else FALSE)
  lastOp,          \* the renderer operation performed last
  clearsInRow,     \* consecutive clear() calls just performed (capped at 2)
  dirtyAtClear,    \* after clear(): the first clear() of the row found ink and segments
  lastPath,        \* after render(): "post" or "direct", the way to the screen (else "none")
  lastTrailWrite   \* the trail target the latest trail blend wrote, "A" or "B"
                   \* ("none" since initPostProcessing or clearTrail)

VARIABLES
  ctxState,         \* AudioManager.ctx: "none" (null), else AudioContext.state
  audioNow,         \* AudioContext.currentTime in ms
  genInitialized,   \* AudioManager.genInitialized
  schedInterval,    \* SpiralMusicEngine.schedInterval !== null
  engineAudioState, \* SpiralMusicEngine.audioState and .config (NoAudioState: null)
  nextTime,         \* SpiralMusicEngine.nextTime, per layer, in ms
  voicePool,        \* SpiralMusicEngine.voicePool
  releaseTimers,    \* pending setTimeout(() => { voice.busy = false }): voices, oldest first
  isPaused,         \* useSpiralAnimation.isPausedRef
  rafId,            \* useSpiralAnimation.rafIdRef !== null
  timeoutId,        \* useSpiralAnimation.timeoutIdRef !== null
  \* history of the run, read by the properties only
  resumed,          \* the context has come back from a suspension
  scheduledNow,     \* after a scheduler tick: the layers it scheduled (else {})
  claimLog          \* after a scheduler tick: its _claimVoice calls, in order (else << >>)

VARIABLES
  config,           \* useSpiralAnimation.configRef.current
  reactiveMods,     \* reactiveModsRef.current
  rendererLive,     \* rendererRef.current !== null
  curve,            \* posRef, angleDegRef, stepCountRef, oscPhaseRef, wobblePhaseRef, tRef, prevPosRef
  pendingRafs,      \* requestAnimationFrame callbacks of the loop not yet run or cancelled
  pendingTimeouts,  \* setTimeout callbacks of the loop not yet run or cancelled
  \* history of the run, read by the properties only
  lastCall          \* "restart" or "clearCanvas" when that call ran last (else "other")

VARIABLES
  call,             \* the helper function under evaluation and its arguments
  result            \* [value |-> v] once the helper has returned v (NoResult before)

fvars == <<call, result>>

VARIABLES
  locks,            \* useSpiralStore.locks: parameter -> locked
  \* history of the run, read by the properties only
  lastKey           \* "L" when the L shortcut was handled last (else "none" / "other")

kvars == <<locks, lastKey>>

VARIABLES
  rootMidi,         \* SpiralMusicEngine.rootMidi
  rootDriftAcc,     \* SpiralMusicEngine.rootDriftAcc, in units of 1e-7
  engineConfig      \* SpiralMusicEngine.config, the fields _updateRoot reads

dvars == <<rootMidi, rootDriftAcc, engineConfig>>

VARIABLES
  energyHistory,    \* ReactiveEngine.energyHistory, energies in thousandths
  lastBeatTime,     \* ReactiveEngine.lastBeatTime (ms)
  wallNow,          \* Date.now() (ms)
  signal,           \* the sound at the analyser
  sampleIdx,        \* frames the signal has been sampled for, modulo its period
  \* history of the run, read by the properties only
  beat,             \* what isBeat() returned in the frame just run
  prevBeatTime      \* lastBeatTime as it was before the latest beat (0: no beat before)

bvars == <<energyHistory, lastBeatTime, wallNow, signal, sampleIdx, beat, prevBeatTime>>

VARIABLES
  sourceNode,       \* ReactiveEngine.sourceNode: the id of a source node, 0 for null
  streamTracks,     \* ReactiveEngine.streamTracks: the streams whose tracks it holds
  connected,        \* the source nodes connected to the analyser
  liveTracks,       \* the microphone streams whose tracks are live
  pendingSources,   \* the setSource calls that are awaiting
  nextRequest,      \* the id of the next setSource call
  \* history of the run, read by the properties only
  lastRequest       \* the latest request made

svars == <<sourceNode, streamTracks, connected, liveTracks, pendingSources, nextRequest, lastRequest>>

uvars == <<kvars, dvars, bvars, svars>>

cvars == <<config, reactiveMods, rendererLive, curve, pendingRafs, pendingTimeouts,
           lastCall>>

avars == <<ctxState, audioNow, genInitialized, schedInterval, engineAudioState,
           nextTime, voicePool, releaseTimers, isPaused, rafId, timeoutId,
           resumed, scheduledNow, claimLog>>

rvars == <<segments, segmentCount, accumTarget, screen, width, height, dpr2,
           postProcessor, renderSettings, trailTargetA, trailTargetB,
           trailWriteIdx, totalAppended, newSinceRender, lastNewCount,
           lastDrawCount, lastEvicted, lastOp, clearsInRow, dirtyAtClear, lastPath,
           lastTrailWrite>>

\* renderSettings === null
NoSettings == [null |-> TRUE]

\* No helper is under evaluation.
NoCall == [fn |-> "none"]

NoResult == [none |-> TRUE]

Abs(x) == IF x < 0 THEN -x ELSE x

Maximum(a, b) == IF a > b THEN a ELSE b

Minimum(a, b) == IF a < b THEN a ELSE b

\* RenderSettings; motionTrail in tenths (0, 0.5, 1.0).
Settings(bloom, chroma, vignette, grain, trail) ==
  [bloomEnabled |-> bloom, chromaticAberrationEnabled |-> chroma,
   vignetteEnabled |-> vignette, filmGrainEnabled |-> grain, motionTrail |-> trail]

\* The settings the runs draw from: nothing on, each effect alone, and the
\* trail with and without a composer pass.
SettingsSet ==
  { Settings(FALSE, FALSE, FALSE, FALSE, 0),
    Settings(TRUE,  FALSE, FALSE, FALSE, 0),
    Settings(FALSE, TRUE,  FALSE, FALSE, 0),
    Settings(FALSE, FALSE, TRUE,  FALSE, 0),
    Settings(FALSE, FALSE, FALSE, TRUE,  0),
    Settings(FALSE, FALSE, FALSE, FALSE, 5),
    Settings(FALSE, FALSE, FALSE, FALSE, 10),
    Settings(TRUE,  FALSE, FALSE, FALSE, 5) }

\* ------------------------------------------------------------ SpiralGeometry

\* TypedArray.copyWithin(target, start, end) on whole segments (0-based slots).
copyWithin(arr, target, start, end) ==
  [i \in DOMAIN arr |->
     IF i >= target /\ i < target + (end - start) /\ start + (i - target) \in DOMAIN arr
     THEN arr[start + (i - target)] ELSE arr[i]]

_dropOldest_keepsOldest(segs, cnt) ==
  [segments |-> segs, segmentCount |-> MAX_SEGMENTS \div 2]

_dropOldest(segs, cnt) ==
  LET keep   == MAX_SEGMENTS \div 2
      offset == MAX_SEGMENTS - keep
  IN  [segments |-> copyWithin(segs, 0, offset, cnt), segmentCount |-> keep]

\* A write past the end of a Float32Array is ignored.
storeAt(arr, i, v) == IF i \in DOMAIN arr THEN [arr EXCEPT ![i] = v] ELSE arr

appendSegment_dropsLate(segs, cnt, label) ==
  LET d == IF cnt > MAX_SEGMENTS THEN _dropOldest(segs, cnt)
           ELSE [segments |-> segs, segmentCount |-> cnt]
  IN  [segments     |-> storeAt(d.segments, d.segmentCount, label),
       segmentCount |-> d.segmentCount + 1,
       evicted      |-> cnt > MAX_SEGMENTS]

appendSegment(segs, cnt, label) ==
  LET d == IF cnt >= MAX_SEGMENTS THEN _dropOldest(segs, cnt)
           ELSE [segments |-> segs, segmentCount |-> cnt]
  IN  [segments     |-> storeAt(d.segments, d.segmentCount, label),
       segmentCount |-> d.segmentCount + 1,
       evicted      |-> cnt >= MAX_SEGMENTS]

\* The instances the line mesh draws: slots 0..instanceCount-1.
drawnInstances(segs, cnt) ==
  {segs[i] : i \in {j \in DOMAIN segs : j < cnt}}

\* ------------------------------------------------------------- PostProcessor

\* MixShader: mix(current, previous, mixFactor), mixFactor = motionTrail.
mixShader(current, previous, trail) ==
  IF trail = 0 THEN current
  ELSE IF trail = 10 THEN previous
  ELSE current \cup previous

PostProcessorRender_sameBuffer(s, accum, tA, tB, idx) ==
  IF s.motionTrail > 0
  THEN LET curr == IF idx = 0 THEN tA ELSE tB
           out  == mixShader(accum, curr, s.motionTrail)
       IN  [trailTargetA  |-> IF idx = 0 THEN out ELSE tA,
            trailTargetB  |-> IF idx = 0 THEN tB ELSE out,
            trailWriteIdx |-> idx,
            screen        |-> out,
            wrote         |-> IF idx = 0 THEN "A" ELSE "B"]
  ELSE [trailTargetA |-> tA, trailTargetB |-> tB, trailWriteIdx |-> idx,
        screen |-> accum, wrote |-> "same"]

\* PostProcessor.render: trail blend into the write target, then the seeded
\* copy goes to the screen through the composer passes or the direct blit
\* (neither adds nor removes ink).
PostProcessorRender(s, accum, tA, tB, idx) ==
  IF s.motionTrail > 0
  THEN LET prevTarget == IF idx = 0 THEN tB ELSE tA
           out        == mixShader(accum, prevTarget, s.motionTrail)
       IN  [trailTargetA  |-> IF idx = 0 THEN out ELSE tA,
            trailTargetB  |-> IF idx = 0 THEN tB ELSE out,
            trailWriteIdx |-> 1 - idx,
            screen        |-> out,
            wrote         |-> IF idx = 0 THEN "A" ELSE "B"]
  ELSE [trailTargetA |-> tA, trailTargetB |-> tB, trailWriteIdx |-> idx,
        screen |-> accum, wrote |-> "same"]

clearTrail_onlyA(tA, tB, idx) ==
  [trailTargetA |-> {}, trailTargetB |-> tB, trailWriteIdx |-> 0]

clearTrail_flipsIndex(tA, tB, idx) ==
  [trailTargetA |-> {}, trailTargetB |-> {}, trailWriteIdx |-> 1 - idx]

clearTrail(tA, tB, idx) ==
  [trailTargetA |-> {}, trailTargetB |-> {}, trailWriteIdx |-> 0]

\* ------------------------------------------------------------ SpiralRenderer

_allEffectsOff_ignoresTrail(s) ==
  /\ ~s.bloomEnabled
  /\ ~s.chromaticAberrationEnabled
  /\ ~s.vignetteEnabled
  /\ ~s.filmGrainEnabled

_allEffectsOff(s) ==
  /\ ~s.bloomEnabled
  /\ ~s.chromaticAberrationEnabled
  /\ ~s.vignetteEnabled
  /\ ~s.filmGrainEnabled
  /\ s.motionTrail = 0

\* Math.round(css * devicePixelRatio)
physicalSize(css, d2) == (css * d2 + 1) \div 2

\* WebGLRenderTarget.setSize: a changed size disposes the target's storage.
setSize(content, oldW, oldH, newW, newH) ==
  IF oldW = newW /\ oldH = newH THEN content ELSE {}

renderToAccum_autoClear(accum, segs, cnt) == drawnInstances(segs, cnt)

\* render() step 1: autoClear = false, the scene is drawn over the target.
renderToAccum(accum, segs, cnt) == accum \cup drawnInstances(segs, cnt)

RInit ==
  /\ segments = [i \in 0..(MAX_SEGMENTS - 1) |-> 0]
  /\ segmentCount = 0
  /\ accumTarget = {}
  /\ screen = {}
  /\ width \in 1..MaxDim
  /\ height = 1
  /\ dpr2 \in {1, 2}
  /\ postProcessor = FALSE
  /\ renderSettings = NoSettings
  /\ trailTargetA = {}
  /\ trailTargetB = {}
  /\ trailWriteIdx = 0
  /\ totalAppended = 0
  /\ newSinceRender = 0
  /\ lastNewCount = 0
  /\ lastDrawCount = 0
  /\ lastEvicted = FALSE
  /\ lastOp = "init"
  /\ clearsInRow = 0
  /\ dirtyAtClear = FALSE
  /\ lastPath = "none"
  /\ lastTrailWrite = "none"

\* What the properties remember of the operation just performed; wrote is
\* the trail target a blend wrote, "none" when the targets were zeroed,
\* "same" when the operation left them alone.
Remember(op, drawn, new, evicted, clears, dirty, path, wrote) ==
  /\ lastOp' = op
  /\ lastTrailWrite' = IF wrote = "same" THEN lastTrailWrite ELSE wrote
  /\ lastPath' = path
  /\ lastDrawCount' = drawn
  /\ lastNewCount' = new
  /\ lastEvicted' = evicted
  /\ clearsInRow' = clears
  /\ dirtyAtClear' = dirty

\* A call on the renderer alone: the loop and the audio engine stay put.
Performed(op, drawn, new, evicted, clears, dirty, path, wrote) ==
  /\ Remember(op, drawn, new, evicted, clears, dirty, path, wrote)
  /\ UNCHANGED <<avars, cvars, fvars, uvars>>

\* Called once, by initRenderer, before the first render().
InitPostProcessing(s) ==
  /\ postProcessor = FALSE
  /\ postProcessor' = TRUE
  /\ renderSettings' = s
  /\ trailTargetA' = {}
  /\ trailTargetB' = {}
  /\ trailWriteIdx' = 0
  /\ Performed("initPostProcessing", 0, 0, FALSE, 0, FALSE, "none", "none")
  /\ UNCHANGED <<segments, segmentCount, accumTarget, screen, width, height, dpr2,
                 totalAppended, newSinceRender>>

UpdateRenderSettings(s) ==
  /\ renderSettings' = s
  /\ Performed("updateRenderSettings", 0, 0, FALSE, 0, FALSE, "none", "same")
  /\ UNCHANGED <<segments, segmentCount, accumTarget, screen, width, height, dpr2,
                 postProcessor, trailTargetA, trailTargetB, trailWriteIdx,
                 totalAppended, newSinceRender>>

AddLineSegment ==
  /\ totalAppended < MaxAppends
  /\ LET r == appendSegment(segments, segmentCount, totalAppended + 1)
     IN  /\ segments' = r.segments
         /\ segmentCount' = r.segmentCount
         /\ Performed("appendSegment", 0, 0, r.evicted, 0, FALSE, "none", "same")
  /\ totalAppended' = totalAppended + 1
  /\ newSinceRender' = newSinceRender + 1
  /\ UNCHANGED <<accumTarget, screen, width, height, dpr2, postProcessor,
                 renderSettings, trailTargetA, trailTargetB, trailWriteIdx>>

Render ==
  LET accum   == renderToAccum(accumTarget, segments, segmentCount)
      usePost == /\ postProcessor
                 /\ renderSettings # NoSettings
                 /\ ~_allEffectsOff(renderSettings)
      p       == PostProcessorRender(renderSettings, accum, trailTargetA,
                                     trailTargetB, trailWriteIdx)
  IN  /\ accumTarget' = accum
      /\ IF usePost
         THEN /\ trailTargetA' = p.trailTargetA
              /\ trailTargetB' = p.trailTargetB
              /\ trailWriteIdx' = p.trailWriteIdx
              /\ screen' = p.screen
         ELSE /\ screen' = accum
              /\ UNCHANGED <<trailTargetA, trailTargetB, trailWriteIdx>>
      /\ newSinceRender' = 0
      /\ Performed("render", segmentCount, newSinceRender, FALSE, 0, FALSE,
                   IF usePost THEN "post" ELSE "direct",
                   IF usePost THEN p.wrote ELSE "same")
      /\ UNCHANGED <<segments, segmentCount, width, height, dpr2, postProcessor,
                     renderSettings, totalAppended>>

\* SpiralRenderer.clear() on the renderer state.
ClearEffect ==
  LET t == clearTrail(trailTargetA, trailTargetB, trailWriteIdx)
  IN  /\ segmentCount' = 0
      /\ accumTarget' = {}
      /\ screen' = {}
      /\ IF postProcessor
         THEN /\ trailTargetA' = t.trailTargetA
              /\ trailTargetB' = t.trailTargetB
              /\ trailWriteIdx' = t.trailWriteIdx
         ELSE UNCHANGED <<trailTargetA, trailTargetB, trailWriteIdx>>
      /\ totalAppended' = 0
      /\ newSinceRender' = 0
      /\ Remember("clear"  , 0, 0, FALSE,
                   IF clearsInRow = 0 THEN 1 ELSE 2,
                   IF clearsInRow = 0
                   THEN /\ segmentCount > 0
                        /\ accumTarget # {}
                        /\ screen # {}
                        /\ trailTargetA \cup trailTargetB # {}
                   ELSE dirtyAtClear,
                   "none",
                   IF postProcessor THEN "none" ELSE "same")
      /\ UNCHANGED <<segments, width, height, dpr2, postProcessor, renderSettings>>

Clear == ClearEffect /\ UNCHANGED <<avars, cvars, fvars, uvars>>

Resize(w, h) ==
  /\ Performed("resize", 0, 0, FALSE, 0, FALSE, "none", "same")
  /\ IF w = width /\ h = height
     THEN UNCHANGED <<width, height, accumTarget, screen, trailTargetA, trailTargetB>>
     ELSE LET oldW == physicalSize(width, dpr2)
              oldH == physicalSize(height, dpr2)
              newW == physicalSize(w, dpr2)
              newH == physicalSize(h, dpr2)
          IN  /\ width' = w
              /\ height' = h
              /\ screen' = {}
              /\ accumTarget' = setSize(accumTarget, oldW, oldH, newW, newH)
              /\ trailTargetA' = setSize(trailTargetA, oldW, oldH, newW, newH)
              /\ trailTargetB' = setSize(trailTargetB, oldW, oldH, newW, newH)
  /\ UNCHANGED <<segments, segmentCount, dpr2, postProcessor, renderSettings,
                 trailWriteIdx, totalAppended, newSinceRender>>

RNext ==
  \/ \E s \in SettingsSet : InitPostProcessing(s)
  \/ \E s \in SettingsSet : UpdateRenderSettings(s)
  \/ AddLineSegment
  \/ Render
  \/ Clear
  \/ \E w \in 1..MaxDim : Resize(w, 1)

\* -------------------------------------------------------- SpiralMusicEngine

Layers == {"drone", "melody", "sparkle"}

\* SpiralMusicEngine.LOOKAHEAD (0.025 s), in ms.
LOOKAHEAD == 25
\* Voices created by SpiralMusicEngine.init.
POOL_SIZE == 6

\* engine.audioState === null
NoAudioState == [null |-> TRUE]

\* AudioState as the engine reads it; musicDensity in tenths (0.5, 1.0).
AudioStateOf(mode, drone, melody, sparkle, density) ==
  [mode |-> mode, droneEnabled |-> drone, melodyEnabled |-> melody,
   sparkleEnabled |-> sparkle, musicDensity |-> density]

\* The audio states the runs draw from.
AudioStates ==
  { AudioStateOf("generate", TRUE, TRUE,  TRUE, 10),
    AudioStateOf("both",     FALSE, TRUE, TRUE, 5),
    AudioStateOf("react",    TRUE, TRUE,  TRUE, 10),
    AudioStateOf("off",      TRUE, TRUE,  TRUE, 10) }

\* The values of AudioContext.currentTime (ms) at which callbacks run.
Instants == {0, 1475, 1490, 7975}

layerEnabled(as, l) ==
  IF l = "drone" THEN as.droneEnabled
  ELSE IF l = "melody" THEN as.melodyEnabled
  ELSE as.sparkleEnabled

due_inclusive(next, now) == next <= now + LOOKAHEAD

\* _runScheduler: this.nextTime.x < now + this.LOOKAHEAD
due(next, now) == next < now + LOOKAHEAD

eventStart_atNextTime(now, next) == next

\* Math.max(this.ctx.currentTime, this.nextTime.x)
eventStart(now, next) == IF now > next THEN now ELSE next

\* 8 + (1 - density) * 12 seconds
droneInterval(density) == 8000 + (10 - density) * 1200

melodyInterval_signSlip(density) == 1500 + (density - 10) * 450

\* 1.5 + (1 - density) * 4.5 seconds
melodyInterval(density) == 1500 + (10 - density) * 450

\* 0.5 + (1 - density) * 2.5 seconds
sparkleMean(density) == 500 + (10 - density) * 250

\* exponentialRandom(mean): a draw near 0 and a draw of the mean itself.
ExponentialDraws == {"short", "mean"}
exponentialRandom(mean, draw) == IF draw = "short" THEN 1 ELSE mean

\* Math.max(0.1, interval) seconds
sparkleInterval(density, draw) ==
  LET interval == exponentialRandom(sparkleMean(density), draw)
  IN  IF interval > 100 THEN interval ELSE 100

\* A voice as created by init: free, gain.value = 0.
FreshVoice == [busy |-> FALSE, gain |-> "zero"]

\* this.voicePool.find(v => !v.busy): its index, 0 when every voice is busy.
firstFree(pool) ==
  IF \E i \in DOMAIN pool : ~pool[i].busy
  THEN CHOOSE i \in DOMAIN pool :
         ~pool[i].busy /\ \A j \in DOMAIN pool : j < i => pool[j].busy
  ELSE 0

_claimVoice_noSilence(pool, rnd) ==
  LET free == firstFree(pool)
  IN  IF free # 0
      THEN [pool |-> [pool EXCEPT ![free].busy = TRUE], voice |-> free, stolen |-> FALSE]
      ELSE [pool |-> [pool EXCEPT ![rnd].busy = TRUE], voice |-> rnd, stolen |-> TRUE]

\* Values of Math.floor(Math.random() * this.voicePool.length) + 1.
StealDraws == {1, POOL_SIZE}

\* rnd: the voice picked when every voice is busy.
_claimVoice(pool, rnd) ==
  LET free == firstFree(pool)
  IN  IF free # 0
      THEN [pool |-> [pool EXCEPT ![free].busy = TRUE], voice |-> free, stolen |-> FALSE]
      ELSE [pool |-> [pool EXCEPT ![rnd] = [busy |-> TRUE, gain |-> "zero"]],
            voice |-> rnd, stolen |-> TRUE]

\* cancelScheduledValues / setValueAtTime / linearRampToValueAtTime on a voice.
setEnvelope(pool, v) == [pool EXCEPT ![v].gain = "envelope"]

\* What the properties remember of one _claimVoice call.
ClaimRecord(before, c) ==
  [voice     |-> c.voice,
   stolen    |-> c.stolen,
   firstFree |-> firstFree(before),
   busy      |-> c.pool[c.voice].busy,
   gain      |-> c.pool[c.voice].gain]

\* The outcomes of one _claimVoice call, over the draws of Math.random.
claims(pool) == {_claimVoice(pool, rnd) : rnd \in StealDraws}

\* _scheduleMelody, the voices: the main voice is claimed and given its
\* envelope, then one voice for each of the two extra partials; the release
\* timeouts are set for the partials first and for the main voice last.
_scheduleMelody ==
  \E c1 \in claims(voicePool) :
  \E p1 \in {setEnvelope(c1.pool, c1.voice)} :
  \E c2 \in claims(p1) :
  \E p2 \in {setEnvelope(c2.pool, c2.voice)} :
  \E c3 \in claims(p2) :
    /\ voicePool' = setEnvelope(c3.pool, c3.voice)
    /\ releaseTimers' = releaseTimers \o <<c2.voice, c3.voice, c1.voice>>
    /\ claimLog' = <<ClaimRecord(voicePool, c1), ClaimRecord(p1, c2),
                     ClaimRecord(p2, c3)>>

AInit ==
  /\ ctxState = "none"
  /\ audioNow = 0
  /\ genInitialized = FALSE
  /\ schedInterval = FALSE
  /\ engineAudioState = NoAudioState
  /\ nextTime = [l \in Layers |-> 0]
  /\ voicePool = << >>
  /\ releaseTimers = << >>
  /\ resumed = FALSE
  /\ scheduledNow = {}
  /\ claimLog = << >>

\* Every audio action other than the scheduler tick leaves its history empty.
NoTick == scheduledNow' = {} /\ claimLog' = << >>

\* useAudio.initAudio -> AudioManager.initContext: new AudioContext().
InitAudio ==
  /\ ctxState = "none"
  /\ ctxState' \in {"running", "suspended"}
  /\ NoTick
  /\ UNCHANGED <<audioNow, genInitialized, schedInterval, engineAudioState, nextTime,
                 voicePool, releaseTimers, isPaused, rafId, timeoutId, resumed>>
  /\ UNCHANGED rvars
  /\ UNCHANGED <<cvars, fvars, uvars>>

\* The browser suspends the context on its own.
AutoSuspend ==
  /\ ctxState = "running"
  /\ ctxState' = "suspended"
  /\ NoTick
  /\ UNCHANGED <<audioNow, genInitialized, schedInterval, engineAudioState, nextTime,
                 voicePool, releaseTimers, isPaused, rafId, timeoutId, resumed>>
  /\ UNCHANGED rvars
  /\ UNCHANGED <<cvars, fvars, uvars>>

\* The audio hardware clock runs while the context does.
Advance(t) ==
  /\ ctxState = "running"
  /\ t > audioNow
  /\ audioNow' = t
  /\ NoTick
  /\ UNCHANGED <<ctxState, genInitialized, schedInterval, engineAudioState, nextTime,
                 voicePool, releaseTimers, isPaused, rafId, timeoutId, resumed>>
  /\ UNCHANGED rvars
  /\ UNCHANGED <<cvars, fvars, uvars>>

\* One frame of the useAudio rAF loop: AudioManager.tick(config, audioState),
\* with SpiralMusicEngine.init on first use and SpiralMusicEngine.tick.
\* resumes: whether ctx.resume() has taken effect when the frame ends.
AudioFrame(as, resumes) ==
  /\ ctxState \in {"running", "suspended"}
  /\ NoTick
  /\ IF as.mode = "off"
     THEN UNCHANGED <<ctxState, genInitialized, schedInterval, engineAudioState,
                      voicePool, resumed>>
     ELSE /\ ctxState' = IF ctxState = "suspended" /\ ~resumes THEN "suspended"
                         ELSE "running"
          /\ resumed' = (resumed \/ (ctxState = "suspended" /\ resumes))
          /\ IF as.mode \in {"generate", "both"}
             THEN /\ genInitialized' = TRUE
                  /\ schedInterval' = TRUE
                  /\ voicePool' = IF genInitialized THEN voicePool
                                  ELSE [v \in 1..POOL_SIZE |-> FreshVoice]
                  /\ engineAudioState' = as
             ELSE UNCHANGED <<genInitialized, schedInterval, voicePool,
                              engineAudioState>>
  /\ UNCHANGED <<audioNow, nextTime, releaseTimers, isPaused, rafId, timeoutId>>
  /\ UNCHANGED rvars
  /\ UNCHANGED <<cvars, fvars, uvars>>

\* The body of the setInterval callback: each enabled layer that is due
\* schedules one event and moves its nextTime.
_runScheduler ==
  /\ IF engineAudioState = NoAudioState \/ ctxState # "running"
     THEN /\ NoTick
          /\ UNCHANGED <<nextTime, voicePool, releaseTimers>>
     ELSE LET as      == engineAudioState
              now     == audioNow
              density == as.musicDensity
              runs(l) == layerEnabled(as, l) /\ due(nextTime[l], now)
          IN  /\ nextTime' \in
                   { [l \in Layers |->
                        IF ~runs(l) THEN nextTime[l]
                        ELSE eventStart(now, nextTime[l]) +
                             (IF l = "drone" THEN droneInterval(density)
                              ELSE IF l = "melody" THEN melodyInterval(density)
                              ELSE sparkleInterval(density, draw))]
                     : draw \in ExponentialDraws }
              /\ IF runs("melody")
                 THEN _scheduleMelody
                 ELSE /\ claimLog' = << >>
                      /\ UNCHANGED <<voicePool, releaseTimers>>
              /\ scheduledNow' = {l \in Layers : runs(l)}
  /\ UNCHANGED <<ctxState, audioNow, genInitialized, schedInterval, engineAudioState,
                 isPaused, rafId, timeoutId, resumed>>
  /\ UNCHANGED rvars
  /\ UNCHANGED <<cvars, fvars, uvars>>

SchedulerInterval_onFrame == schedInterval /\ (rafId \/ timeoutId) /\ _runScheduler

\* setInterval(() => { ... }, SCHED_MS): the callback fires while the
\* interval exists.
SchedulerInterval == schedInterval /\ _runScheduler

\* The oldest release timeout of _scheduleMelody fires: voice.busy = false.
\* The timeouts come due in the order they were set; how late they run is
\* up to the browser. After dispose they act on voices no longer in the pool.
ReleaseTimeout ==
  /\ releaseTimers # << >>
  /\ releaseTimers' = Tail(releaseTimers)
  /\ voicePool' = IF Head(releaseTimers) \in DOMAIN voicePool
                  THEN [voicePool EXCEPT ![Head(releaseTimers)].busy = FALSE]
                  ELSE voicePool
  /\ NoTick
  /\ UNCHANGED <<ctxState, audioNow, genInitialized, schedInterval, engineAudioState,
                 nextTime, isPaused, rafId, timeoutId, resumed>>
  /\ UNCHANGED rvars
  /\ UNCHANGED <<cvars, fvars, uvars>>

\* The source side of the ReactiveEngine.
SourceState ==
  [sourceNode |-> sourceNode, streamTracks |-> streamTracks,
   connected |-> connected, liveTracks |-> liveTracks]

\* ReactiveEngine.disconnect(): the held node is disconnected and dropped,
\* the held tracks are stopped and dropped.
disconnect(e) ==
  [sourceNode |-> 0, streamTracks |-> {},
   connected |-> e.connected \ {e.sourceNode},
   liveTracks |-> e.liveTracks \ e.streamTracks]

\* The engine after a call that ran disconnect(): e, and an empty history.
SourceBecomes(e) ==
  /\ sourceNode' = e.sourceNode
  /\ streamTracks' = e.streamTracks
  /\ connected' = e.connected
  /\ liveTracks' = e.liveTracks
  /\ energyHistory' = << >>
  /\ UNCHANGED <<lastBeatTime, wallNow, signal, sampleIdx, beat, prevBeatTime>>

\* useAudio cleanup -> AudioManager.dispose -> SpiralMusicEngine.dispose,
\* ReactiveEngine.disconnect.
DisposeAudio ==
  /\ ctxState \in {"running", "suspended"}
  /\ schedInterval' = FALSE
  /\ voicePool' = << >>
  /\ engineAudioState' = NoAudioState
  /\ SourceBecomes(disconnect(SourceState))
  /\ lastRequest' = "dispose"
  /\ ctxState' = "closed"
  /\ genInitialized' = FALSE
  /\ NoTick
  /\ UNCHANGED <<audioNow, nextTime, releaseTimers, isPaused, rafId, timeoutId, resumed>>
  /\ UNCHANGED rvars
  /\ UNCHANGED <<cvars, fvars, kvars, dvars, pendingSources, nextRequest>>

\* -------------------------------------------------------- useSpiralAnimation

\* SpiralConfigV2, the fields the loop reads. originX, originY in tenths;
\* angles in whole degrees; oscillationSpeed and wobbleSpeed such that the
\* phases advance by whole units of 0.05 rad and 0.1 rad.  The configs have
\* spiralType 'linear', stepMultiplier 0, angleIncrement 0, acceleration 0,
\* no pulse effect and the forward direction.
Config(family, speed, steps, len, angle, rot, ox, osc, wob) ==
  [spiralFamily |-> family, speed |-> speed, stepsPerFrame |-> steps,
   stepLength |-> len, angleChange |-> angle, rotationOffset |-> rot,
   originX |-> ox, originY |-> 5,
   oscillate |-> osc, oscillationSpeed |-> 20,
   wobble |-> wob, wobbleSpeed |-> 1, wobbleIntensity |-> 0,
   symmetry |-> 1, multiLineCount |-> 1]

\* The configs the runs draw from.
ConfigSet ==
  { Config("classic",    20, 1, 5, 90, 0,  5,  FALSE, FALSE),
    Config("classic",    0,  2, 5, 90, 90, 10, TRUE,  TRUE),
    Config("parametric", 0,  1, 5, 90, 0,  5,  FALSE, FALSE) }

\* reactiveModsRef.current: a Partial<SpiralConfigV2>, as a function from
\* the overridden field names.
NoMods == [f \in {} |-> 0]

ModsSet ==
  { NoMods,
    [f \in {"stepLength", "angleChange"} |-> IF f = "stepLength" THEN 8 ELSE 30] }

mergeConfig_baseWins(base, mods) ==
  [f \in DOMAIN base \cup DOMAIN mods |->
     IF f \in DOMAIN base THEN base[f] ELSE mods[f]]

\* { ...configRef.current, ...mods }
mergeConfig(base, mods) ==
  [f \in DOMAIN base \cup DOMAIN mods |->
     IF f \in DOMAIN mods THEN mods[f] ELSE base[f]]

\* computeNextFrame's cfg: the merge when mods has keys, else the base itself.
effectiveConfig(base, mods) ==
  IF DOMAIN mods # {} THEN mergeConfig(base, mods) ELSE base

\* ---- the loop: isPausedRef, the two handles and the callbacks they name.
\* A pending callback carries the `steps` its tick closure captured; cur
\* tells whether its id is the one held in rafIdRef / timeoutIdRef.

Callback(steps, cur) == [steps |-> steps, cur |-> cur]

\* The handle is overwritten: what it named before is no longer reachable.
orphaned(pending) == {Callback(c.steps, FALSE) : c \in pending}

\* rafIdRef.current = requestAnimationFrame(() => { tick(); scheduleNext() })
requestFrame(l, steps) ==
  [l EXCEPT !.rafId = TRUE,
            !.rafs = orphaned(@) \cup {Callback(steps, TRUE)}]

\* Math.max(1, Math.round(configRef.current.stepsPerFrame))
stepsOf(cfg) == IF cfg.stepsPerFrame > 1 THEN cfg.stepsPerFrame ELSE 1

\* scheduleNext: nothing when paused; requestAnimationFrame when speed is 0,
\* setTimeout otherwise.  speed and steps are read here, once.
scheduleNext(l, cfg) ==
  IF l.isPaused THEN l
  ELSE IF cfg.speed <= 0 THEN requestFrame(l, stepsOf(cfg))
  ELSE [l EXCEPT !.timeoutId = TRUE,
                 !.timeouts = orphaned(@) \cup {Callback(stepsOf(cfg), TRUE)}]

stopLoop_keepsTimer(l) ==
  [l EXCEPT !.rafs = IF l.rafId THEN {c \in @ : ~c.cur} ELSE @,
            !.rafId = FALSE]

\* stopLoop: cancelAnimationFrame / clearTimeout on the ids held, then null.
stopLoop(l) ==
  [l EXCEPT !.rafs = IF l.rafId THEN {c \in @ : ~c.cur} ELSE @,
            !.rafId = FALSE,
            !.timeouts = IF l.timeoutId THEN {c \in @ : ~c.cur} ELSE @,
            !.timeoutId = FALSE]

\* The loop as it stands.
Loop ==
  [isPaused |-> isPaused, rafId |-> rafId, timeoutId |-> timeoutId,
   rafs |-> pendingRafs, timeouts |-> pendingTimeouts]

SetLoop(l) ==
  /\ isPaused' = l.isPaused
  /\ rafId' = l.rafId
  /\ timeoutId' = l.timeoutId
  /\ pendingRafs' = l.rafs
  /\ pendingTimeouts' = l.timeouts

\* ---- the curve state

\* posRef: the start point and the steps taken from it, each an
\* <<angle, length>> pair (classicStep adds cos, sin of the angle times the
\* length).
Point(x, y) == [x |-> x, y |-> y, path |-> << >>]

\* (cfg.originX - 0.5) * canvasWidth, (0.5 - cfg.originY) * canvasHeight
originOf(cfg, w, h) ==
  Point(((cfg.originX - 5) * w) \div 10, ((5 - cfg.originY) * h) \div 10)

NoPoint == [null |-> TRUE]

\* The refs of the curve state as the hook creates them.
FreshCurve ==
  [pos |-> Point(0, 0), angleDeg |-> 0, stepCount |-> 0, oscPhase |-> 0,
   wobblePhase |-> 0, t |-> 0, prevPos |-> NoPoint]

resetState_keepsPhase(cur, cfg, live, w, h) ==
  IF ~live THEN cur
  ELSE [pos |-> originOf(cfg, w, h), angleDeg |-> cfg.rotationOffset,
        stepCount |-> 0, oscPhase |-> cur.oscPhase, wobblePhase |-> 0,
        t |-> 0, prevPos |-> NoPoint]

resetState_keepsPrevPoint(cur, cfg, live, w, h) ==
  IF ~live THEN cur
  ELSE [pos |-> originOf(cfg, w, h), angleDeg |-> cfg.rotationOffset,
        stepCount |-> 0, oscPhase |-> 0, wobblePhase |-> 0,
        t |-> 0, prevPos |-> cur.prevPos]

\* resetState: nothing without a renderer.
resetState(cur, cfg, live, w, h) ==
  IF ~live THEN cur
  ELSE [pos |-> originOf(cfg, w, h), angleDeg |-> cfg.rotationOffset,
        stepCount |-> 0, oscPhase |-> 0, wobblePhase |-> 0,
        t |-> 0, prevPos |-> NoPoint]

\* Math.sin(oscPhase) * 45, to the degree, at the phases 0, 1, 2, ... rad.
sinTimes45(phase) ==
  CASE phase = 0   -> 0
    [] phase = 20  -> 38
    [] phase = 40  -> 41
    [] phase = 60  -> 6
    [] phase = 80  -> -34
    [] phase = 100 -> -43
    [] OTHER       -> -13

\* (Math.random() * 2 - 1), the draws -1 and 0.
WobbleDraws == {-1, 0}

\* posRef.current = classicStep(x, y, angleDeg, stepLen)
classicStep(pos, angleDeg, stepLen) ==
  [pos EXCEPT !.path = Append(@, <<angleDeg, stepLen>>)]

\* getParametricPoint(t, cfg, scale) + origin: the point at parameter t.
parametricPoint(t, cfg, w, h) ==
  [x |-> ((cfg.originX - 5) * w) \div 10, y |-> ((5 - cfg.originY) * h) \div 10,
   t |-> t]

\* One computeNextFrame on curve state cur under the effective config cfg:
\* the new curve state and the number of addLineSegment calls.
curveStep(cur, cfg, w, h, draw) ==
  LET drawn == cfg.symmetry * cfg.multiLineCount
  IN  IF cfg.spiralFamily = "classic"
      THEN LET osc    == IF cfg.oscillate THEN cur.oscPhase + cfg.oscillationSpeed
                         ELSE cur.oscPhase
               wob    == IF cfg.wobble THEN cur.wobblePhase + cfg.wobbleSpeed
                         ELSE cur.wobblePhase
               change == cfg.angleChange
                         + (IF cfg.oscillate THEN sinTimes45(osc) ELSE 0)
                         + (IF cfg.wobble THEN draw * cfg.wobbleIntensity * 30 ELSE 0)
               angle  == cur.angleDeg + change
           IN  [curve |-> [cur EXCEPT !.oscPhase = osc, !.wobblePhase = wob,
                                      !.angleDeg = angle,
                                      !.pos = classicStep(cur.pos, angle, cfg.stepLength),
                                      !.stepCount = @ + 1],
                drawn |-> drawn]
      ELSE LET t == cur.t + cfg.stepLength * 4
           IN  [curve |-> [cur EXCEPT !.t = t,
                                      !.prevPos = parametricPoint(t, cfg, w, h),
                                      !.stepCount = @ + 1],
                drawn |-> drawn]

\* ---- one tick of the loop

\* _drawWithSymmetry: n addLineSegment calls on the geometry g.
RECURSIVE addSegments(_, _)
addSegments(g, n) ==
  IF n = 0 THEN g
  ELSE LET r == appendSegment(g.segments, g.segmentCount, g.totalAppended + 1)
       IN  addSegments([segments      |-> r.segments,
                        segmentCount  |-> r.segmentCount,
                        totalAppended |-> g.totalAppended + 1,
                        evicted       |-> g.evicted \/ r.evicted], n - 1)

\* for (let i = 0; i < steps; i++) computeNextFrame(): each call merges the
\* config anew; st carries the curve state, the geometry and the configs used.
RECURSIVE runSteps(_, _, _, _, _, _, _)
runSteps(st, n, base, mods, w, h, draws) ==
  IF n = 0 THEN st
  ELSE LET cfg == effectiveConfig(base, mods)
           s   == curveStep(st.curve, cfg, w, h, draws[n])
       IN  runSteps([curve |-> s.curve,
                     geom  |-> addSegments(st.geom, s.drawn),
                     cfgs  |-> Append(st.cfgs, cfg)],
                    n - 1, base, mods, w, h, draws)

\* The audio engine is not involved.
AudioIdle ==
  /\ NoTick
  /\ UNCHANGED <<fvars, uvars>>
  /\ UNCHANGED <<ctxState, audioNow, genInitialized, schedInterval, engineAudioState,
                 nextTime, voicePool, releaseTimers, resumed>>

\* Mount: the lifecycle effect has run initRenderer, resetState, scheduleNext.
CInit ==
  /\ config \in ConfigSet
  /\ reactiveMods = NoMods
  /\ rendererLive = TRUE
  /\ curve = resetState(FreshCurve, config, TRUE, width, height)
  /\ LET l == scheduleNext([isPaused |-> FALSE, rafId |-> FALSE, timeoutId |-> FALSE,
                            rafs |-> {}, timeouts |-> {}], config)
     IN  /\ isPaused = l.isPaused
         /\ rafId = l.rafId
         /\ timeoutId = l.timeoutId
         /\ pendingRafs = l.rafs
         /\ pendingTimeouts = l.timeouts
  /\ lastCall = "other"

Play_whileRunning ==
  /\ SetLoop(scheduleNext([Loop EXCEPT !.isPaused = FALSE], config))
  /\ lastCall' = "other"
  /\ AudioIdle
  /\ UNCHANGED <<config, reactiveMods, rendererLive, curve>>
  /\ UNCHANGED rvars

\* play: nothing unless paused.
Play ==
  /\ IF ~isPaused
     THEN UNCHANGED <<isPaused, rafId, timeoutId, pendingRafs, pendingTimeouts>>
     ELSE SetLoop(scheduleNext([Loop EXCEPT !.isPaused = FALSE], config))
  /\ lastCall' = "other"
  /\ AudioIdle
  /\ UNCHANGED <<config, reactiveMods, rendererLive, curve>>
  /\ UNCHANGED rvars

\* pause: isPausedRef = true, then stopLoop.
Pause ==
  /\ SetLoop(stopLoop([Loop EXCEPT !.isPaused = TRUE]))
  /\ lastCall' = "other"
  /\ AudioIdle
  /\ UNCHANGED <<config, reactiveMods, rendererLive, curve>>
  /\ UNCHANGED rvars

\* restart: stopLoop, isPausedRef = false, resetState, scheduleNext.
Restart ==
  /\ SetLoop(scheduleNext([stopLoop(Loop) EXCEPT !.isPaused = FALSE], config))
  /\ curve' = resetState(curve, config, rendererLive, width, height)
  /\ lastCall' = "restart"
  /\ AudioIdle
  /\ UNCHANGED <<config, reactiveMods, rendererLive>>
  /\ UNCHANGED rvars

\* clearCanvas: rendererRef.current?.clear(), then resetState.
ClearCanvas ==
  /\ IF rendererLive THEN ClearEffect ELSE UNCHANGED rvars
  /\ curve' = resetState(curve, config, rendererLive, width, height)
  /\ lastCall' = "clearCanvas"
  /\ AudioIdle
  /\ UNCHANGED <<isPaused, rafId, timeoutId, pendingRafs, pendingTimeouts>>
  /\ UNCHANGED <<config, reactiveMods, rendererLive>>

\* The setTimeout callback of scheduleNext: it requests the frame that will
\* run the tick captured with it.
TimeoutFires(cb) ==
  /\ cb \in pendingTimeouts
  /\ SetLoop(requestFrame([Loop EXCEPT !.timeouts = @ \ {cb}], cb.steps))
  /\ lastCall' = "other"
  /\ AudioIdle
  /\ UNCHANGED <<config, reactiveMods, rendererLive, curve>>
  /\ UNCHANGED rvars

\* The requestAnimationFrame callback of scheduleNext: tick(), scheduleNext().
\* tick pushes the render settings held by renderSettingsRef (the ones the
\* renderer was set up with), runs cb.steps computeNextFrame calls and one
\* render(); without a renderer each of these does nothing.
FrameFires(cb, draws) ==
  /\ cb \in pendingRafs
  /\ rendererLive =>
       /\ curve.stepCount + cb.steps <= MaxSteps
       /\ totalAppended + cb.steps <= MaxAppends
  /\ SetLoop(scheduleNext([Loop EXCEPT !.rafs = @ \ {cb}], config))
  /\ lastCall' = "other"
  /\ IF ~rendererLive
     THEN UNCHANGED <<curve, rvars>>
     ELSE LET st == runSteps([curve |-> curve,
                              geom  |-> [segments |-> segments,
                                         segmentCount |-> segmentCount,
                                         totalAppended |-> totalAppended,
                                         evicted |-> FALSE],
                              cfgs  |-> << >>],
                             cb.steps, config, reactiveMods, width, height, draws)
              accum   == renderToAccum(accumTarget, st.geom.segments,
                                       st.geom.segmentCount)
              usePost == /\ postProcessor
                         /\ renderSettings # NoSettings
                         /\ ~_allEffectsOff(renderSettings)
              p       == PostProcessorRender(renderSettings, accum, trailTargetA,
                                             trailTargetB, trailWriteIdx)
          IN  /\ curve' = st.curve
              /\ segments' = st.geom.segments
              /\ segmentCount' = st.geom.segmentCount
              /\ totalAppended' = st.geom.totalAppended
              /\ accumTarget' = accum
              /\ IF usePost
                 THEN /\ trailTargetA' = p.trailTargetA
                      /\ trailTargetB' = p.trailTargetB
                      /\ trailWriteIdx' = p.trailWriteIdx
                      /\ screen' = p.screen
                 ELSE /\ screen' = accum
                      /\ UNCHANGED <<trailTargetA, trailTargetB, trailWriteIdx>>
              /\ newSinceRender' = 0
              /\ Remember("render", st.geom.segmentCount,
                          newSinceRender + (st.geom.totalAppended - totalAppended),
                          st.geom.evicted, 0, FALSE,
                          IF usePost THEN "post" ELSE "direct",
                          IF usePost THEN p.wrote ELSE "same")
              /\ UNCHANGED <<width, height, dpr2, postProcessor, renderSettings>>
  /\ AudioIdle
  /\ UNCHANGED <<config, reactiveMods, rendererLive>>

\* Cleanup of the lifecycle effect: stopLoop, renderer.dispose(),
\* rendererRef.current = null.  The controls object outlives it.
Unmount ==
  /\ rendererLive
  /\ rendererLive' = FALSE
  /\ SetLoop(stopLoop(Loop))
  /\ lastCall' = "other"
  /\ AudioIdle
  /\ UNCHANGED <<config, reactiveMods, curve>>
  /\ UNCHANGED rvars

\* A render of the mounted hook with a new config: configRef.current = config.
SetConfig(c) ==
  /\ rendererLive
  /\ config' = c
  /\ lastCall' = "other"
  /\ AudioIdle
  /\ UNCHANGED <<isPaused, rafId, timeoutId, pendingRafs, pendingTimeouts>>
  /\ UNCHANGED <<reactiveMods, rendererLive, curve>>
  /\ UNCHANGED rvars

\* The audio rAF loop writes reactiveModsRef.current.
WriteMods(m) ==
  /\ reactiveMods' = m
  /\ lastCall' = "other"
  /\ AudioIdle
  /\ UNCHANGED <<isPaused, rafId, timeoutId, pendingRafs, pendingTimeouts>>
  /\ UNCHANGED <<config, rendererLive, curve>>
  /\ UNCHANGED rvars

CNext ==
  \/ Play
  \/ Pause
  \/ Restart
  \/ ClearCanvas
  \/ \E cb \in pendingTimeouts : TimeoutFires(cb)
  \/ \E cb \in pendingRafs : \E draws \in [1..2 -> WobbleDraws] : FrameFires(cb, draws)
  \/ Unmount
  \/ \E c \in ConfigSet : SetConfig(c)
  \/ \E m \in ModsSet : WriteMods(m)

ANext ==
  \/ InitAudio
  \/ AutoSuspend
  \/ \E t \in Instants : Advance(t)
  \/ \E as \in AudioStates : \E resumes \in BOOLEAN : AudioFrame(as, resumes)
  \/ SchedulerInterval
  \/ ReleaseTimeout
  \/ DisposeAudio
  \/ Play
  \/ Pause

\* --------------------------------------------------------- helper functions

\* Ratios are in thousandths.
SIMPLE_RATIOS == <<1000, 1250, 1333, 1500, 2000, 2500, 3000, 4000, 8000>>

\* The loop over SIMPLE_RATIOS: r replaces best when its relative distance
\* |clamped - r| / r is strictly smaller (compared cross-multiplied).
RECURSIVE snapBest(_, _, _)
snapBest(clamped, i, best) ==
  IF i > Len(SIMPLE_RATIOS) THEN best
  ELSE LET r == SIMPLE_RATIOS[i]
       IN  snapBest(clamped, i + 1,
                    IF Abs(clamped - r) * best < Abs(clamped - best) * r
                    THEN r ELSE best)

snapToSimpleRatio_noClamp(ratio) ==
  LET best == snapBest(ratio, 2, SIMPLE_RATIOS[1])
  IN  IF Abs(ratio - best) * 100 < 15 * best THEN best ELSE ratio

\* bestDist < 0.15 ? best : clamped
snapToSimpleRatio(ratio) ==
  LET clamped == Maximum(1000, Minimum(8000, ratio))
      best    == snapBest(clamped, 2, SIMPLE_RATIOS[1])
  IN  IF Abs(clamped - best) * 100 < 15 * best THEN best ELSE clamped

\* Raw ratios 0.50, 0.51, ..., 9.00. At 4.60 the relative distance to 4 is
\* 0.15 in exact arithmetic and the rounding of the double quotient decides
\* the comparison, so that one input is left to floating point.
SnapInputs == {10 * k : k \in 50..900} \ {4600}

SnapCalls == [fn : {"snapToSimpleRatio"}, ratio : SnapInputs]

SnapToSimpleRatio ==
  /\ call.fn = "snapToSimpleRatio"
  /\ result = NoResult
  /\ result' = [value |-> snapToSimpleRatio(call.ratio)]
  /\ UNCHANGED <<call, rvars, avars, cvars, uvars>>

\* ---- _nextMelodyNote

SCALES ==
  [pentatonic_minor |-> <<0, 3, 5, 7, 10>>,
   pentatonic_major |-> <<0, 2, 4, 7, 9>>,
   major            |-> <<0, 2, 4, 5, 7, 9, 11>>,
   natural_minor    |-> <<0, 2, 3, 5, 7, 8, 10>>,
   dorian           |-> <<0, 2, 3, 5, 7, 9, 10>>,
   mixolydian       |-> <<0, 2, 4, 5, 7, 9, 10>>,
   whole_tone       |-> <<0, 2, 4, 6, 8, 10>>,
   diminished       |-> <<0, 2, 3, 5, 6, 8, 9, 11>>,
   lydian           |-> <<0, 2, 4, 6, 7, 9, 11>>,
   chromatic        |-> <<0, 1, 2, 3, 4, 5, 6, 7, 8, 9, 10, 11>>]

FAMILY_PALETTES ==
  [classic     |-> {"major", "natural_minor", "dorian", "mixolydian"},
   archimedean |-> {"pentatonic_minor", "pentatonic_major"},
   parametric  |-> {"whole_tone", "diminished", "lydian", "chromatic"}]

PaletteScales == UNION {FAMILY_PALETTES[f] : f \in DOMAIN FAMILY_PALETTES}

\* undefined, as against a number v returned as [value |-> v].
Undefined == [undefined |-> TRUE]

\* The candidate notes in the order the two loops push them: octaves -1..2,
\* the scale's intervals inside each, kept when 48 <= midi <= 84.
candidates(root, scale) ==
  LET n      == Len(scale)
      all    == [k \in 1..(4 * n) |->
                   root + (((k - 1) \div n) - 1) * 12 + scale[((k - 1) % n) + 1]]
      inRange(midi) == midi >= 48 /\ midi <= 84
  IN  SelectSeq(all, inRange)

stepwiseOf(cands, last) ==
  LET near(n) == Abs(n - last) <= 5 /\ n # last IN SelectSeq(cands, near)

leapsOf(cands, last) ==
  LET far(n) == Abs(n - last) > 5 /\ n # last IN SelectSeq(cands, far)

melodyPool_noFallback(cands, last, stepDraw) ==
  IF stepDraw THEN stepwiseOf(cands, last) ELSE leapsOf(cands, last)

\* Math.random() < 0.7 && stepwise.length > 0 ? stepwise
\*   : leaps.length > 0 ? leaps : candidates
melodyPool(cands, last, stepDraw) ==
  IF stepDraw /\ Len(stepwiseOf(cands, last)) > 0 THEN stepwiseOf(cands, last)
  ELSE IF Len(leapsOf(cands, last)) > 0 THEN leapsOf(cands, last)
  ELSE cands

\* Math.random() in tenths, for the index into the pool.
IndexDraws == {0, 3, 6, 9}

\* pool[Math.floor(Math.random() * pool.length)]
_nextMelodyNote(last, scale, root, stepDraw, indexDraw) ==
  LET cands == candidates(root, scale)
      pool  == melodyPool(cands, last, stepDraw)
      i     == (indexDraw * Len(pool)) \div 10
  IN  IF Len(cands) = 0 THEN [value |-> 60]
      ELSE IF i + 1 \in DOMAIN pool THEN [value |-> pool[i + 1]] ELSE Undefined

\* rootMidi is kept in 48..72; lastMelodyMidi ranges over the notes the
\* engine can have played and a fifth beyond on either side.
MelodyCalls ==
  [fn : {"_nextMelodyNote"}, root : 48..72, scale : PaletteScales, last : 40..92]

NextMelodyNote ==
  /\ call.fn = "_nextMelodyNote"
  /\ result = NoResult
  /\ \E stepDraw \in BOOLEAN : \E indexDraw \in IndexDraws :
       result' = _nextMelodyNote(call.last, SCALES[call.scale], call.root,
                                 stepDraw, indexDraw)
  /\ UNCHANGED <<call, rvars, avars, cvars, uvars>>

\* ---- AudioManager._applyMapping

\* The fields of the config that hold numbers.
NumberFields ==
  {"speed", "stepsPerFrame", "stepLength", "angleChange", "rotationOffset",
   "originX", "originY", "oscillationSpeed", "wobbleSpeed", "wobbleIntensity",
   "symmetry", "multiLineCount"}

\* An AudioMapping: intensity in tenths, min and max optional (<< >> when
\* absent, <<v>> when given).
Mapping(parameter, mode, intensity, min, max) ==
  [parameter |-> parameter, mode |-> mode, intensity |-> intensity,
   min |-> min, max |-> max]

\* a ?? b on an optional number
orElse(opt, default) == IF opt = << >> THEN default ELSE opt[1]

_applyMapping_maxDefaultsToBase(mapping, energy, cfg) ==
  IF mapping.parameter \notin NumberFields THEN Undefined
  ELSE LET base == cfg[mapping.parameter]
       IN  [value |->
              CASE mapping.mode = "add" ->
                     200 * base + energy * mapping.intensity * Abs(base)
                [] mapping.mode = "multiply" ->
                     2 * base * (100 + energy * mapping.intensity)
                [] mapping.mode = "set" ->
                     LET lo == orElse(mapping.min, 0)
                         hi == orElse(mapping.max, Abs(base))
                     IN  200 * lo + 20 * energy * (hi - lo)]

\* The value returned, in two-hundredths (energy and intensity are in
\* tenths, and "add" halves), or undefined when the field is not a number.
_applyMapping(mapping, energy, cfg) ==
  IF mapping.parameter \notin NumberFields THEN Undefined
  ELSE LET base == cfg[mapping.parameter]
       IN  [value |->
              CASE mapping.mode = "add" ->
                     200 * base + energy * mapping.intensity * Abs(base)
                [] mapping.mode = "multiply" ->
                     2 * base * (100 + energy * mapping.intensity)
                [] mapping.mode = "set" ->
                     LET lo == orElse(mapping.min, 0)
                         hi == orElse(mapping.max, Abs(base) * 2)
                     IN  200 * lo + 20 * energy * (hi - lo)]

\* Configs with a positive, a zero and a negative number among the mapped
\* fields.
MapConfigs ==
  { Config("classic", 20, 1, 10, 90, -40, 5, FALSE, FALSE),
    Config("classic", 20, 1, 3,  90, 0,   5, FALSE, FALSE) }

MapCalls ==
  [fn : {"_applyMapping"},
   mapping : { Mapping(p, md, i, lo, hi) :
                 p \in {"stepLength", "rotationOffset", "spiralFamily"},
                 md \in {"add", "multiply", "set"},
                 i \in {0, 5, 10},
                 lo \in {<< >>, <<1>>},
                 hi \in {<< >>, <<0>>, <<8>>} },
   energy : {0, 5, 10},
   config : MapConfigs]

ApplyMapping ==
  /\ call.fn = "_applyMapping"
  /\ result = NoResult
  /\ result' = _applyMapping(call.mapping, call.energy, call.config)
  /\ UNCHANGED <<call, rvars, avars, cvars, uvars>>

PNext ==
  \/ SnapToSimpleRatio
  \/ NextMelodyNote
  \/ ApplyMapping

\* ----------------------------------------------- useSpiralStore, the locks

\* Keys of defaultConfigV2 (the lock table has one entry per key).
LockParams ==
  {"originX", "originY", "speed", "angleChange", "stepLength", "symmetry",
   "rotationOffset"}

\* defaultLocks(): everything unlocked, then originX, originY, speed and
\* angleChange locked.
defaultLocks ==
  [p \in LockParams |-> p \in {"originX", "originY", "speed", "angleChange"}]

toggleLock(l, param) == [l EXCEPT ![param] = ~l[param]]

lockAll(l) == [p \in DOMAIN l |-> TRUE]

\* unlockAll: const next = defaultLocks()
unlockAll(l) == defaultLocks

\* Object.values(store.locks).some(Boolean)
anyLocked(l) == \E p \in DOMAIN l : l[p]

\* The store as created, with nothing persisted.
LockInit ==
  /\ locks = defaultLocks
  /\ lastKey = "none"

\* Everything outside the store stays as it is.
StoreOnly == UNCHANGED <<rvars, avars, cvars, fvars, dvars, bvars, svars>>

\* handleKey, case 'l' / 'L'.
PressL ==
  /\ locks' = IF anyLocked(locks) THEN unlockAll(locks) ELSE lockAll(locks)
  /\ lastKey' = "L"
  /\ StoreOnly

\* The lock button of one parameter row.
ToggleLock(param) ==
  /\ locks' = toggleLock(locks, param)
  /\ lastKey' = "other"
  /\ StoreOnly

KNext ==
  \/ PressL
  \/ \E param \in LockParams : ToggleLock(param)

\* -------------------------------------- SpiralMusicEngine, the root drift

\* 1.0 in the unit of rootDriftAcc.
ONE == 10000000

\* The config fields _updateRoot reads.
DriftConfig(family, angleChange, archA, lissPhase) ==
  [spiralFamily |-> family, angleChange |-> angleChange, archA |-> archA,
   lissPhase |-> lissPhase]

\* One config per family, with drift increments of 0.000125, 0.00025 and
\* 0.0014 (8000, 4000 and 714.3 ticks to the semitone).
DriftConfigs ==
  { DriftConfig("classic",     225, 0,   90),
    DriftConfig("parametric",  360, 0,   340),
    DriftConfig("archimedean", 360, 440, 90) }

\* 0.00008 + seed * 0.00001
driftIncrement(cfg) ==
  800 + (IF cfg.spiralFamily = "archimedean" THEN 30 * cfg.archA
         ELSE IF cfg.spiralFamily = "parametric" THEN 5 * cfg.lissPhase
         ELSE 2 * cfg.angleChange)

_updateRoot_keepsAcc(acc, root, cfg, dir) ==
  LET a == acc + driftIncrement(cfg)
  IN  IF a >= ONE
      THEN [acc |-> a, root |-> Maximum(48, Minimum(72, root + dir))]
      ELSE [acc |-> a, root |-> root]

\* dir: the sign drawn by Math.random() < 0.5 ? 1 : -1.
_updateRoot(acc, root, cfg, dir) ==
  LET a == acc + driftIncrement(cfg)
  IN  IF a >= ONE
      THEN [acc |-> a - ONE, root |-> Maximum(48, Minimum(72, root + dir))]
      ELSE [acc |-> a, root |-> root]

\* The engine as constructed: C4, nothing accumulated, the default config.
RootInit ==
  /\ rootMidi = 60
  /\ rootDriftAcc = 0
  /\ engineConfig = DriftConfig("classic", 360, 0, 90)

\* SpiralMusicEngine.tick, the root: _updateRoot(config).
EngineTick ==
  /\ \E dir \in {-1, 1} :
       LET u == _updateRoot(rootDriftAcc, rootMidi, engineConfig, dir)
       IN  /\ rootDriftAcc' = u.acc
           /\ rootMidi' = u.root
  /\ UNCHANGED <<engineConfig, rvars, avars, cvars, fvars, kvars, bvars, svars>>

DNext == EngineTick

\* ------------------------------------------ ReactiveEngine, beat detection

BEAT_COOLDOWN_MS == 200
ENERGY_HISTORY_LEN == 60

\* What _sliceEnergy reads off the analyser, frame after frame: nothing, a
\* steady tone, a faint pulse under the noise floor, and loud pulses every
\* 4th and every 15th frame.
Signals == {"silence", "steady", "faint", "pulse4", "pulse15"}

periodOf(sig) ==
  IF sig = "pulse4" THEN 4 ELSE IF sig = "pulse15" \/ sig = "faint" THEN 15 ELSE 1

\* The energy (thousandths) of frame i of the signal.
energyOf(sig, i) ==
  IF sig = "silence" THEN 0
  ELSE IF sig = "steady" THEN 500
  ELSE IF sig = "faint" THEN (IF i = 0 THEN 60 ELSE 10)
  ELSE IF i = 0 THEN 800 ELSE 100

\* update(): push, then shift when longer than ENERGY_HISTORY_LEN.
update(history, energy) ==
  LET pushed == Append(history, energy)
  IN  IF Len(pushed) > ENERGY_HISTORY_LEN THEN Tail(pushed) ELSE pushed

RECURSIVE sumOf(_)
sumOf(seq) == IF seq = << >> THEN 0 ELSE Head(seq) + sumOf(Tail(seq))

isBeat_noCooldown(history, last, now) ==
  IF Len(history) < 10 THEN [beat |-> FALSE, lastBeatTime |-> last]
  ELSE LET current == history[Len(history)]
           rest    == SubSeq(history, 1, Len(history) - 1)
           n       == Len(rest)
       IN  IF sumOf(rest) > 20 * n /\ 2 * current * n > 3 * sumOf(rest)
           THEN [beat |-> TRUE, lastBeatTime |-> now]
           ELSE [beat |-> FALSE, lastBeatTime |-> last]

\* isBeat(): avg > 0.02 && current > avg * BEAT_THRESHOLD, with avg the
\* mean of history.slice(0, -1); compared multiplied through by the length.
isBeat(history, last, now) ==
  IF Len(history) < 10 THEN [beat |-> FALSE, lastBeatTime |-> last]
  ELSE IF now - last < BEAT_COOLDOWN_MS THEN [beat |-> FALSE, lastBeatTime |-> last]
  ELSE LET current == history[Len(history)]
           rest    == SubSeq(history, 1, Len(history) - 1)
           n       == Len(rest)
       IN  IF sumOf(rest) > 20 * n /\ 2 * current * n > 3 * sumOf(rest)
           THEN [beat |-> TRUE, lastBeatTime |-> now]
           ELSE [beat |-> FALSE, lastBeatTime |-> last]

\* The engine as constructed, in silence.
BeatInit ==
  /\ energyHistory = << >>
  /\ lastBeatTime = 0
  /\ wallNow = 1000
  /\ signal = "silence"
  /\ sampleIdx = 0
  /\ beat = FALSE
  /\ prevBeatTime = 0

\* Milliseconds between two frames of the audio loop: a regular frame and a
\* late one.
FrameGaps == {20, 50}

\* One frame of AudioManager.tick in a reactive mode, gap ms after the
\* frame before: reactive.update(), then reactive.isBeat().
ReactiveFrame(gap) ==
  /\ wallNow + gap <= MaxClock
  /\ wallNow' = wallNow + gap
  /\ sampleIdx' = (sampleIdx + 1) % periodOf(signal)
  /\ \E h \in {update(energyHistory, energyOf(signal, sampleIdx))} :
     \E b \in {isBeat(h, lastBeatTime, wallNow + gap)} :
       /\ energyHistory' = h
       /\ beat' = b.beat
       /\ lastBeatTime' = b.lastBeatTime
       /\ prevBeatTime' = IF b.beat THEN lastBeatTime ELSE prevBeatTime
  /\ UNCHANGED <<signal, rvars, avars, cvars, fvars, kvars, dvars, svars>>

BNext == \E gap \in FrameGaps : ReactiveFrame(gap)

\* ------------------------------------------ ReactiveEngine, audio sources

Request(id, kind, stage) == [id |-> id, kind |-> kind, stage |-> stage]

\* The engine as constructed: no source, no request made.
SourceInit ==
  /\ sourceNode = 0
  /\ streamTracks = {}
  /\ connected = {}
  /\ liveTracks = {}
  /\ pendingSources = {}
  /\ nextRequest = 1
  /\ lastRequest = "none"

\* What a source action leaves alone.
SourceOnly == UNCHANGED <<rvars, avars, cvars, fvars, kvars, dvars>>

\* The engine keeps its state and its history.
SourceKept ==
  UNCHANGED <<sourceNode, streamTracks, connected, liveTracks, bvars>>

\* handleMic -> setAudioSource('mic') -> setSource -> connectMicrophone, with
\* the context running, up to its await: disconnect(), then getUserMedia is
\* asked.
SetSourceMic ==
  /\ ctxState = "running"
  /\ nextRequest <= MaxRequests
  /\ SourceBecomes(disconnect(SourceState))
  /\ pendingSources' = pendingSources \cup {Request(nextRequest, "mic", "permission")}
  /\ nextRequest' = nextRequest + 1
  /\ lastRequest' = "mic"
  /\ SourceOnly

\* getUserMedia resolves: the stream's tracks (live) replace streamTracks, its
\* source node is connected and replaces sourceNode.  On a context that was
\* closed meanwhile createMediaStreamSource connects or throws.
MicGranted(r) ==
  /\ r \in pendingSources /\ r.kind = "mic"
  /\ pendingSources' = pendingSources \ {r}
  /\ liveTracks' = liveTracks \cup {r.id}
  /\ streamTracks' = {r.id}
  /\ \E made \in (IF ctxState = "closed" THEN BOOLEAN ELSE {TRUE}) :
       /\ connected' = IF made THEN connected \cup {r.id} ELSE connected
       /\ sourceNode' = IF made THEN r.id ELSE sourceNode
  /\ UNCHANGED <<bvars, nextRequest, lastRequest>>
  /\ SourceOnly

\* getUserMedia rejects: connectMicrophone throws, handleMic shows the error.
MicDenied(r) ==
  /\ r \in pendingSources /\ r.kind = "mic"
  /\ pendingSources' = pendingSources \ {r}
  /\ SourceKept
  /\ UNCHANGED <<nextRequest, lastRequest>>
  /\ SourceOnly

\* handleFile -> setAudioSource('file', file) -> setSource, with the context
\* running, up to its await of file.arrayBuffer().
SetSourceFile ==
  /\ ctxState = "running"
  /\ nextRequest <= MaxRequests
  /\ pendingSources' = pendingSources \cup {Request(nextRequest, "file", "read")}
  /\ nextRequest' = nextRequest + 1
  /\ lastRequest' = "file"
  /\ SourceKept
  /\ SourceOnly

\* file.arrayBuffer() resolves: this.ctx.decodeAudioData is awaited; after
\* dispose() this.ctx is null and the call throws.
FileRead(r) ==
  /\ r \in pendingSources /\ r.kind = "file" /\ r.stage = "read"
  /\ pendingSources' = IF ctxState = "closed" THEN pendingSources \ {r}
                       ELSE (pendingSources \ {r}) \cup {Request(r.id, "file", "decode")}
  /\ SourceKept
  /\ UNCHANGED <<nextRequest, lastRequest>>
  /\ SourceOnly

\* decodeAudioData resolves: connectFileBuffer runs disconnect(), connects the
\* buffer source and keeps it; after dispose() its ctx is null and it throws
\* after disconnect().
FileDecoded(r) ==
  /\ r \in pendingSources /\ r.kind = "file" /\ r.stage = "decode"
  /\ pendingSources' = pendingSources \ {r}
  /\ \E e \in {disconnect(SourceState)} :
       IF ctxState = "closed" THEN SourceBecomes(e)
       ELSE SourceBecomes([e EXCEPT !.sourceNode = r.id,
                                    !.connected = e.connected \cup {r.id}])
  /\ UNCHANGED <<nextRequest, lastRequest>>
  /\ SourceOnly

\* decodeAudioData rejects: handleFile shows the error.
FileFailed(r) ==
  /\ r \in pendingSources /\ r.kind = "file" /\ r.stage = "decode"
  /\ pendingSources' = pendingSources \ {r}
  /\ SourceKept
  /\ UNCHANGED <<nextRequest, lastRequest>>
  /\ SourceOnly

\* useAudio.disconnectReactive -> AudioManager.disconnectReactive.
DisconnectReactive ==
  /\ ctxState # "none"
  /\ SourceBecomes(disconnect(SourceState))
  /\ lastRequest' = "disconnect"
  /\ UNCHANGED <<pendingSources, nextRequest>>
  /\ SourceOnly

\* handleModeChange('off'): the mode is stored, onDisconnectReactive() runs.
ModeOff ==
  /\ ctxState # "none"
  /\ SourceBecomes(disconnect(SourceState))
  /\ lastRequest' = "off"
  /\ UNCHANGED <<pendingSources, nextRequest>>
  /\ SourceOnly

Requests ==
  {Request(id, "mic", "permission") : id \in 1..(MaxRequests + 1)}
    \cup {Request(id, "file", stage) : id \in 1..(MaxRequests + 1), stage \in {"read", "decode"}}

SNext ==
  \/ SetSourceMic
  \/ SetSourceFile
  \/ \E r \in Requests : MicGranted(r)
  \/ \E r \in Requests : MicDenied(r)
  \/ \E r \in Requests : FileRead(r)
  \/ \E r \in Requests : FileDecoded(r)
  \/ \E r \in Requests : FileFailed(r)
  \/ DisconnectReactive
  \/ ModeOff
  \/ DisposeAudio

\* The parts of the program added to the first three, as constructed.
UInit ==
  /\ LockInit
  /\ RootInit
  /\ BeatInit
  /\ SourceInit

\* ------------------------------------------------------------ specifications

vars == <<rvars, avars, cvars, fvars, uvars>>

\* The renderer alone: no audio context is ever created.
RenderInit ==
  /\ RInit /\ AInit /\ CInit
  /\ config = Config("classic", 20, 1, 5, 90, 0, 5, FALSE, FALSE)
  /\ call = NoCall /\ result = NoResult
  /\ UInit

RenderSpec == RenderInit /\ [][RNext]_vars

\* The audio engine and the play/pause switch of the visual loop, over a
\* renderer that is never drawn to.
AudioInit ==
  /\ RInit /\ width = 1 /\ dpr2 = 2
  /\ AInit
  /\ CInit /\ config.spiralFamily = "classic"
  /\ call = NoCall /\ result = NoResult
  /\ UInit

AudioSpec == AudioInit /\ [][ANext]_vars

\* The visual loop on a mounted canvas: the renderer as initRenderer leaves
\* it, with its PostProcessor set up for a motion trail.
AnimInit ==
  /\ segments = [i \in 0..(MAX_SEGMENTS - 1) |-> 0]
  /\ segmentCount = 0
  /\ accumTarget = {}
  /\ screen = {}
  /\ width = 2
  /\ height = 2
  /\ dpr2 = 2
  /\ postProcessor = TRUE
  /\ renderSettings = Settings(FALSE, FALSE, FALSE, FALSE, 5)
  /\ trailTargetA = {}
  /\ trailTargetB = {}
  /\ trailWriteIdx = 0
  /\ totalAppended = 0
  /\ newSinceRender = 0
  /\ lastNewCount = 0
  /\ lastDrawCount = 0
  /\ lastEvicted = FALSE
  /\ lastOp = "initPostProcessing"
  /\ clearsInRow = 0
  /\ dirtyAtClear = FALSE
  /\ lastPath = "none"
  /\ lastTrailWrite = "none"
  /\ AInit
  /\ CInit
  /\ call = NoCall /\ result = NoResult
  /\ UInit

AnimSpec == AnimInit /\ [][CNext]_vars

\* The helper functions, each applied once to arguments drawn at the start;
\* the renderer, the engine and the loop stay as constructed.
PureInit ==
  /\ RInit /\ width = 1 /\ dpr2 = 2
  /\ AInit
  /\ CInit /\ config = Config("classic", 20, 1, 5, 90, 0, 5, FALSE, FALSE)
  /\ call \in SnapCalls \cup MelodyCalls \cup MapCalls
  /\ result = NoResult
  /\ UInit

PureSpec == PureInit /\ [][PNext]_vars

\* Everything as constructed and left alone, for the runs of one part on
\* its own.
IdleInit ==
  /\ RInit /\ width = 1 /\ dpr2 = 2
  /\ AInit
  /\ CInit /\ config = Config("classic", 20, 1, 5, 90, 0, 5, FALSE, FALSE)
  /\ call = NoCall /\ result = NoResult
  /\ UInit

\* The lock table under the L shortcut and the lock buttons.
LockSpec == IdleInit /\ [][KNext]_vars

\* The root note under engine ticks, for each of the drift configs.
RootSpecInit ==
  /\ RInit /\ width = 1 /\ dpr2 = 2
  /\ AInit
  /\ CInit /\ config = Config("classic", 20, 1, 5, 90, 0, 5, FALSE, FALSE)
  /\ call = NoCall /\ result = NoResult
  /\ LockInit
  /\ rootMidi = 60
  /\ rootDriftAcc = 0
  /\ engineConfig \in DriftConfigs
  /\ BeatInit
  /\ SourceInit

RootSpec == RootSpecInit /\ [][DNext]_vars

\* The beat detector over the frames of each signal.
BeatSpecInit ==
  /\ RInit /\ width = 1 /\ dpr2 = 2
  /\ AInit
  /\ CInit /\ config = Config("classic", 20, 1, 5, 90, 0, 5, FALSE, FALSE)
  /\ call = NoCall /\ result = NoResult
  /\ LockInit
  /\ RootInit
  /\ energyHistory = << >>
  /\ lastBeatTime = 0
  /\ wallNow = 1000
  /\ signal \in Signals
  /\ sampleIdx = 0
  /\ beat = FALSE
  /\ prevBeatTime = 0
  /\ SourceInit

BeatSpec == BeatSpecInit /\ [][BNext]_vars

\* The sources of the reactive engine, after initAudio on a running context.
SourceSpecInit ==
  /\ RInit /\ width = 1 /\ dpr2 = 2
  /\ ctxState = "running"
  /\ audioNow = 0
  /\ genInitialized = FALSE
  /\ schedInterval = FALSE
  /\ engineAudioState = NoAudioState
  /\ nextTime = [l \in Layers |-> 0]
  /\ voicePool = << >>
  /\ releaseTimers = << >>
  /\ resumed = FALSE
  /\ scheduledNow = {}
  /\ claimLog = << >>
  /\ CInit /\ config = Config("classic", 20, 1, 5, 90, 0, 5, FALSE, FALSE)
  /\ call = NoCall /\ result = NoResult
  /\ LockInit
  /\ RootInit
  /\ BeatInit
  /\ SourceInit

SourceSpec == SourceSpecInit /\ [][SNext]_vars

\* setInterval keeps firing the scheduler callback; nothing is assumed of
\* the display callbacks (the rAF loops) or of any other event.
AudioLiveSpec == AudioSpec /\ WF_vars(SchedulerInterval)

\* ------------------------------------------------- properties of the renderer

\* C1: over every sequence of appendSegment and reset calls the segment count
\* stays within 0..MAX_SEGMENTS, and every appendSegment succeeds: the segment
\* it was given is stored as the last counted segment, on a full buffer too.
C1_CountWithinCapacity ==
  /\ segmentCount \in 0..MAX_SEGMENTS
  /\ lastOp = "appendSegment" =>
       /\ segmentCount >= 1
       /\ segments[segmentCount - 1] = totalAppended

\* An appendSegment that found the buffer full and evicted.
C1_Witness == lastOp = "appendSegment" /\ lastEvicted /\ totalAppended > MAX_SEGMENTS

\* C2: the counted slots hold, in insertion order, the most recent
\* segmentCount segments appended since the last reset (a contiguous suffix),
\* and an appendSegment on a full buffer leaves floor(MAX_SEGMENTS/2) retained
\* segments followed by the new one.
C2_ContiguousSuffix ==
  /\ \A i \in 0..(segmentCount - 1) :
       segments[i] = totalAppended - segmentCount + 1 + i
  /\ (lastOp = "appendSegment" /\ lastEvicted) =>
       segmentCount = (MAX_SEGMENTS \div 2) + 1

\* An eviction that retained at least two segments, so their order shows.
C2_Witness ==
  /\ lastOp = "appendSegment"
  /\ lastEvicted
  /\ segmentCount >= 3
  /\ segments[0] = totalAppended - 2

\* C3: a render() draws into the accumulation target as many segments as were
\* appended since the previous render().
C3_DrawsOnlyNewSegments ==
  lastOp = "render" => lastDrawCount = lastNewCount

\* C4 as claimed: ink leaves the accumulation target only by clear().
C4_OnlyClearResets ==
  [][accumTarget \subseteq accumTarget' \/ lastOp' = "clear"]_vars

\* C4: ink leaves the accumulation target only by clear() or by a resize()
\* to a different canvas size; render() keeps everything drawn before it.
C4_OnlyClearOrResizeResets ==
  [][\/ accumTarget \subseteq accumTarget'
     \/ lastOp' = "clear"
     \/ lastOp' = "resize" /\ (width' # width \/ height' # height)]_vars

\* A render() after which the target still holds a segment that the buffer
\* has evicted since an earlier frame drew it.
C4_Witness ==
  /\ lastOp = "render"
  /\ accumTarget \ drawnInstances(segments, segmentCount) # {}

\* C5: right after clear() the segment count is 0, the accumulation target and
\* the canvas hold no ink, both trail buffers are zeroed and the trail write
\* index is 0; and no surface ever holds ink of a segment appended before the
\* last clear(), so the frames presented after it show no ghost.
C5_ClearResetsEverything ==
  /\ lastOp = "clear" =>
       /\ segmentCount = 0
       /\ accumTarget = {}
       /\ screen = {}
       /\ trailTargetA = {}
       /\ trailTargetB = {}
       /\ trailWriteIdx = 0
  /\ accumTarget \cup screen \cup trailTargetA \cup trailTargetB
       \subseteq 1..totalAppended

\* A clear() performed on segments, ink and a trail history.
C5_Witness == lastOp = "clear" /\ clearsInRow = 1 /\ dirtyAtClear

RendererState ==
  <<segments, segmentCount, accumTarget, screen, trailTargetA, trailTargetB,
    trailWriteIdx, width, height, postProcessor, renderSettings>>

\* C6: a clear() that directly follows a clear() changes nothing.
C6_ClearIdempotent ==
  [][(lastOp = "clear" /\ lastOp' = "clear") => RendererState' = RendererState]_vars

\* Two clear() calls in a row, the first on segments, ink and a trail history.
C6_Witness == lastOp = "clear" /\ clearsInRow = 2 /\ dirtyAtClear

\* ------------------------------------------------------------------- audio

\* C7: for every layer, nextEventTime never decreases, whatever happens
\* between the ticks (suspension and resumption of the context, a change of
\* density between 0 and 1, a change of the enabled layers).
C7_NextEventTimeMonotone ==
  [][\A l \in Layers : nextTime'[l] >= nextTime[l]]_vars

\* The melody layer, first scheduled at density 1.0, is scheduled again at
\* density 0.5 by a tick taken after the context came back from suspension.
C7_Witness ==
  /\ resumed
  /\ "melody" \in scheduledNow
  /\ engineAudioState # NoAudioState
  /\ engineAudioState.musicDensity = 5
  /\ nextTime["drone"] = droneInterval(10)
  /\ nextTime["melody"] > melodyInterval(10) + melodyInterval(5)

\* C8: a tick schedules a layer only if the layer is enabled and its
\* nextEventTime is strictly below currentTime + LOOKAHEAD; every other
\* layer is not scheduled and keeps its nextEventTime.
C8_OnlyDueEnabledLayers ==
  [][\A l \in Layers :
       /\ (l \in scheduledNow' \/ nextTime'[l] # nextTime[l]) =>
            /\ engineAudioState # NoAudioState
            /\ layerEnabled(engineAudioState, l)
            /\ nextTime[l] < audioNow + LOOKAHEAD
            /\ l \in scheduledNow'
       /\ l \notin scheduledNow' => nextTime'[l] = nextTime[l]]_vars

\* One tick that schedules a layer, passes over an enabled layer that is not
\* due yet, and passes over a disabled layer that is due.
C8_Witness ==
  /\ engineAudioState # NoAudioState
  /\ "sparkle" \in scheduledNow
  /\ "melody" \notin scheduledNow /\ engineAudioState.melodyEnabled
  /\ "drone" \notin scheduledNow /\ ~engineAudioState.droneEnabled
  /\ nextTime["drone"] < audioNow + LOOKAHEAD

\* The scheduler would schedule layer l on its next tick.
LayerDue(l) ==
  /\ schedInterval
  /\ ctxState = "running"
  /\ engineAudioState # NoAudioState
  /\ layerEnabled(engineAudioState, l)
  /\ nextTime[l] < audioNow + LOOKAHEAD

\* C9: with nothing assumed of the display callbacks or of the animation
\* loop (paused or not), an enabled layer whose nextEventTime is within the
\* lookahead of a running audio clock is eventually scheduled by the
\* interval tick, unless the context stops running or the layer is switched
\* off first.
C9_SchedulerIndependentOfDisplay ==
  \A l \in Layers : LayerDue(l) ~> (l \in scheduledNow \/ ~LayerDue(l))

\* A tick has scheduled the melody while the animation loop is paused and
\* holds no pending display callback.
C9_Witness ==
  /\ isPaused /\ ~rafId /\ ~timeoutId
  /\ "melody" \in scheduledNow

\* C10: at most POOL_SIZE voices are busy, and each _claimVoice call returns
\* a voice of the pool, marked busy: the first free one if there is one,
\* otherwise a stolen busy voice whose gain is 0 when it is returned.
C10_VoicePool ==
  /\ Len(voicePool) \in {0, POOL_SIZE}
  /\ Cardinality({v \in DOMAIN voicePool : voicePool[v].busy}) <= POOL_SIZE
  /\ \A i \in DOMAIN claimLog :
       LET c == claimLog[i]
       IN  /\ c.voice \in 1..POOL_SIZE
           /\ c.busy
           /\ c.firstFree # 0 => c.voice = c.firstFree /\ ~c.stolen
           /\ c.firstFree = 0 => c.stolen /\ c.gain = "zero"

\* One melody event whose first claim found a free voice and whose last
\* claim found every voice busy and stole one.
C10_Witness ==
  /\ Len(claimLog) = 3
  /\ ~claimLog[1].stolen
  /\ claimLog[3].stolen

\* ------------------------------------------------------- renderer, continued

\* C15: with a PostProcessor in place, render() goes to the screen by the
\* direct copy exactly when bloom, chromatic aberration, vignette and film
\* grain are off and motionTrail is 0, and then leaves the trail buffers and
\* the trail index as they were; otherwise it goes through the PostProcessor.
C15_DirectPathIffNoEffect ==
  [][(lastOp' = "render" /\ postProcessor /\ renderSettings # NoSettings) =>
       LET off == /\ ~renderSettings.bloomEnabled
                  /\ ~renderSettings.chromaticAberrationEnabled
                  /\ ~renderSettings.vignetteEnabled
                  /\ ~renderSettings.filmGrainEnabled
                  /\ renderSettings.motionTrail = 0
       IN  /\ off => lastPath' = "direct"
           /\ off => UNCHANGED <<trailTargetA, trailTargetB, trailWriteIdx>>
           /\ ~off => lastPath' = "post"]_vars

\* A frame with every effect off has gone the direct way although the trail
\* buffers still hold ink of earlier frames.
C15_Witness ==
  /\ lastOp = "render" /\ lastPath = "direct"
  /\ postProcessor /\ renderSettings # NoSettings
  /\ trailTargetA \cup trailTargetB # {}

\* ---------------------------------------------------------- the visual loop

\* A tick of the loop has run its curve steps in this transition.
Stepped == curve'.stepCount > curve.stepCount

C12_NothingPendingAfterDispose ==
  ~rendererLive => pendingRafs = {} /\ pendingTimeouts = {}

\* C13: restart() on a mounted canvas leaves every curve-state field at its
\* initial value for the current config, the loop not paused and exactly one
\* callback pending, the one just scheduled.
C13_RestartResetsAndRuns ==
  [][(lastCall' = "restart" /\ rendererLive) =>
       /\ curve' = [pos |-> [x |-> ((config.originX - 5) * width) \div 10,
                             y |-> ((5 - config.originY) * height) \div 10,
                             path |-> << >>],
                    angleDeg |-> config.rotationOffset,
                    stepCount |-> 0, oscPhase |-> 0, wobblePhase |-> 0,
                    t |-> 0, prevPos |-> NoPoint]
       /\ ~isPaused'
       /\ Cardinality(pendingRafs') + Cardinality(pendingTimeouts') = 1
       /\ \A c \in pendingRafs' \cup pendingTimeouts' : c.cur
       /\ (pendingRafs' # {}) = (config.speed = 0)]_vars

\* restart() has run after the loop had drawn, under a config whose origin
\* and rotation offset are not the defaults.
C13_Witness ==
  /\ lastCall = "restart" /\ rendererLive
  /\ accumTarget # {}
  /\ config.originX = 10 /\ config.rotationOffset = 90
  /\ curve.stepCount = 0

\* C14: clearCanvas() leaves isPausedRef, both handles and the pending
\* callbacks as they are; on a mounted canvas it empties the accumulation
\* target, the screen, the trail buffers and the segment buffer and puts the
\* curve state back to its initial value.
C14_ClearCanvasKeepsLoop ==
  [][lastCall' = "clearCanvas" =>
       /\ UNCHANGED <<isPaused, rafId, timeoutId, pendingRafs, pendingTimeouts>>
       /\ rendererLive =>
            /\ accumTarget' = {} /\ screen' = {} /\ segmentCount' = 0
            /\ trailTargetA' = {} /\ trailTargetB' = {}
            /\ curve'.stepCount = 0 /\ curve'.t = 0 /\ curve'.prevPos = NoPoint
            /\ curve'.oscPhase = 0 /\ curve'.wobblePhase = 0
            /\ curve'.angleDeg = config.rotationOffset
            /\ curve'.pos.path = << >>]_vars

\* clearCanvas() has wiped a canvas that held ink, and the loop still has
\* its callback pending.
C14_Witness ==
  /\ lastCall = "clearCanvas" /\ rendererLive
  /\ lastOp = "clear" /\ clearsInRow = 1 /\ dirtyAtClear
  /\ ~isPaused /\ pendingRafs \cup pendingTimeouts # {}

\* C16: a tick runs as many curve steps as the config asks for when the
\* tick runs.
C16_StepsReadAtFiring ==
  [][(rendererLive /\ Stepped) =>
       curve'.stepCount - curve.stepCount
         = (IF config.stepsPerFrame > 1 THEN config.stepsPerFrame ELSE 1)]_vars

\* C17: every curve step of a tick works on the base config overwritten,
\* key by key, by the reactive override map as both stand when the tick
\* runs (the step length and the turn of a classic step, the parameter
\* advance of a parametric one), and the tick changes neither of the two.
C17_FreshShallowMerge ==
  [][(rendererLive /\ Stepped) =>
       LET eff(f) == IF f \in DOMAIN reactiveMods THEN reactiveMods[f] ELSE config[f]
           n      == curve'.stepCount - curve.stepCount
           old    == Len(curve.pos.path)
       IN  /\ UNCHANGED <<config, reactiveMods>>
           /\ IF eff("spiralFamily") = "classic"
              THEN /\ Len(curve'.pos.path) = old + n
                   /\ \A i \in 1..n : curve'.pos.path[old + i][2] = eff("stepLength")
                   /\ ~eff("oscillate") =>
                        curve'.pos.path[old + 1][1] = curve.angleDeg + eff("angleChange")
              ELSE curve'.t = curve.t + n * eff("stepLength") * 4]_vars

\* A step has been taken with the step length of the override map, not the
\* one of the base config.
C17_Witness ==
  /\ rendererLive
  /\ reactiveMods # NoMods
  /\ curve.stepCount > 0 /\ curve.pos.path # << >>
  /\ curve.pos.path[Len(curve.pos.path)][2] = reactiveMods["stepLength"]
  /\ config.stepLength # reactiveMods["stepLength"]

\* ------------------------------------------------------- the helper functions

\* C18: snapToSimpleRatio clamps its argument to [1, 8], takes the table
\* entry r at the smallest relative distance |clamped - r| / r and returns r
\* when that distance is below 0.15, the clamped argument otherwise; it maps
\* 1.48 to 1.5, 1.2 to 1.25 and 6.0 to 6.0.
C18_SnapToSimpleRatio ==
  (call.fn = "snapToSimpleRatio" /\ result # NoResult) =>
    LET x       == call.ratio
        clamped == IF x < 1000 THEN 1000 ELSE IF x > 8000 THEN 8000 ELSE x
        table   == {1000, 1250, 1333, 1500, 2000, 2500, 3000, 4000, 8000}
        nearest == {r \in table :
                      \A q \in table :
                        Abs(clamped - r) * q <= Abs(clamped - q) * r}
    IN  /\ \E r \in nearest :
             result.value = IF 100 * Abs(clamped - r) < 15 * r THEN r ELSE clamped
        /\ x = 1480 => result.value = 1500
        /\ x = 1200 => result.value = 1250
        /\ x = 6000 => result.value = 6000

\* A ratio off the table has been snapped to the entry next to it.
C18_Witness ==
  /\ call.fn = "snapToSimpleRatio" /\ result # NoResult
  /\ call.ratio = 1480 /\ result.value = 1500

\* C19: for every root in 48..72, every scale of a palette and every
\* previous note, _nextMelodyNote returns one of the candidate notes (never
\* undefined, and the scale is a defined one); when no candidate other than
\* the previous note lies within 5 semitones of it, the note returned is
\* more than 5 semitones away.
C19_MelodyNoteDefined ==
  (call.fn = "_nextMelodyNote" /\ result # NoResult) =>
    /\ call.scale \in DOMAIN SCALES
    /\ LET scale == SCALES[call.scale]
           cands == {n \in 48..84 :
                       \E oct \in -1..2 : \E k \in DOMAIN scale :
                         n = call.root + oct * 12 + scale[k]}
       IN  /\ "value" \in DOMAIN result
           /\ result.value \in cands
           /\ (\A n \in cands : n = call.last \/ Abs(n - call.last) > 5)
                => Abs(result.value - call.last) > 5

\* A note has been returned for a previous note with no candidate within 5
\* semitones.
C19_Witness ==
  /\ call.fn = "_nextMelodyNote" /\ result # NoResult
  /\ "value" \in DOMAIN result
  /\ \A n \in 48..84 :
       (\E oct \in -1..2 : \E k \in DOMAIN SCALES[call.scale] :
          n = call.root + oct * 12 + SCALES[call.scale][k])
         => Abs(n - call.last) > 5
  /\ Abs(result.value - call.last) > 5

\* C20: with b the mapped field, e the energy and i the intensity,
\* _applyMapping returns b + e*i*|b|*0.5 for "add", b*(1 + e*i) for
\* "multiply" and min' + e*(max' - min') for "set", where min' is min or 0
\* and max' is max or 2|b|; set with min 1, max 8, e 0.5 gives 4.5 and
\* multiply with b 10, i 0.5, e 1 gives 15. (Values in two-hundredths, e and
\* i in tenths.)
C20_ApplyMapping ==
  (/\ call.fn = "_applyMapping" /\ result # NoResult
   /\ call.mapping.parameter \in NumberFields) =>
   "value" \in DOMAIN result /\
    LET mp == call.mapping
        b  == call.config[mp.parameter]
        e  == call.energy
        i  == mp.intensity
        mn == IF mp.min = << >> THEN 0 ELSE mp.min[1]
        mx == IF mp.max = << >> THEN 2 * Abs(b) ELSE mp.max[1]
        v  == result.value
    IN  /\ mp.mode = "add"      => 2 * (v - 200 * b) = 2 * e * i * Abs(b)
        /\ mp.mode = "multiply" => v = 200 * b + 2 * b * e * i
        /\ mp.mode = "set"      => v - 200 * mn = 20 * e * (mx - mn)
        /\ (mp.mode = "set" /\ mp.min = <<1>> /\ mp.max = <<8>> /\ e = 5)
             => v = 900
        /\ (mp.mode = "multiply" /\ b = 10 /\ i = 5 /\ e = 10) => v = 3000

\* A "set" mapping without min and max has been applied to a non-zero
\* field at half energy.
C20_Witness ==
  /\ call.fn = "_applyMapping" /\ result # NoResult
  /\ "value" \in DOMAIN result
  /\ call.mapping.mode = "set"
  /\ call.mapping.min = << >> /\ call.mapping.max = << >>
  /\ call.mapping.parameter = "stepLength" /\ call.config.stepLength = 10
  /\ call.energy = 5
  /\ result.value = 2000

\* ------------------------------------------------------- the remaining claims

\* C22: a frame that goes through the PostProcessor with motionTrail > 0
\* writes the trail target the write index names and reads the other one,
\* which is the target the latest earlier blend wrote (or, with no blend
\* since initPostProcessing or clearTrail, an empty one); what is written
\* is the mix of the accumulation target with the target read, the target
\* read keeps its content, and the index flips. With motionTrail = 0 the
\* index and both targets stay as they are.
C22_TrailPingPong ==
  [][(lastOp' = "render" /\ lastPath' = "post") =>
       IF renderSettings.motionTrail > 0
       THEN LET readName == IF trailWriteIdx = 0 THEN "B" ELSE "A"
                read     == IF trailWriteIdx = 0 THEN trailTargetB ELSE trailTargetA
            IN  /\ trailWriteIdx' = 1 - trailWriteIdx
                /\ lastTrailWrite' \in {"A", "B"} \ {readName}
                /\ lastTrailWrite \in {"none", readName}
                /\ lastTrailWrite = "none" => read = {}
                /\ IF trailWriteIdx = 0
                   THEN /\ trailTargetA' = mixShader(accumTarget', read,
                                                     renderSettings.motionTrail)
                        /\ trailTargetB' = trailTargetB
                   ELSE /\ trailTargetB' = mixShader(accumTarget', read,
                                                     renderSettings.motionTrail)
                        /\ trailTargetA' = trailTargetA
       ELSE UNCHANGED <<trailWriteIdx, trailTargetA, trailTargetB>>]_vars

\* A trail frame has read what an earlier trail frame wrote: both targets
\* hold ink, and not the same ink.
C22_Witness ==
  /\ lastOp = "render" /\ lastPath = "post"
  /\ renderSettings.motionTrail > 0
  /\ lastTrailWrite = "B"
  /\ trailTargetA # {} /\ trailTargetB # {}
  /\ trailTargetA # trailTargetB

\* C23: once the engine has been disposed, no timer of the engine fires: the
\* scheduler interval is gone and no release timeout of an earlier melody
\* event is left to run.
C23_NoTimerAfterDispose ==
  [][ctxState = "closed" =>
       /\ ~schedInterval
       /\ releaseTimers' = releaseTimers
       /\ scheduledNow' = {}]_vars

\* C27: a voice whose busy flag is clear is not in the middle of a note: no
\* release timeout of a note scheduled on it is still to run.
C27_FreeVoiceHasNoNote ==
  \A v \in DOMAIN voicePool :
    ~voicePool[v].busy =>
      \A i \in DOMAIN releaseTimers : releaseTimers[i] # v

\* C28: the three voices claimed by one melody event are pairwise distinct.
C28_DistinctVoicesInEvent ==
  claimLog # << >> =>
    \A i, j \in DOMAIN claimLog : i # j => claimLog[i].voice # claimLog[j].voice

\* C30: a scheduler tick schedules a layer at most once; the event starts at
\* the later of the audio clock and the layer's nextTime, so not before the
\* clock; afterwards the layer's nextTime is one interval past that start
\* and beyond now + LOOKAHEAD, so that a tick following at the same instant
\* does not schedule the layer again.
C30_NoBurst ==
  [][\A l \in scheduledNow' :
       LET now   == audioNow
           start == IF now > nextTime[l] THEN now ELSE nextTime[l]
           d     == engineAudioState.musicDensity
       IN  /\ start >= now
           /\ nextTime'[l] - start \in
                (IF l = "drone" THEN {8000 + (10 - d) * 1200}
                 ELSE IF l = "melody" THEN {1500 + (10 - d) * 450}
                 ELSE {1, 500 + (10 - d) * 250, 100})
           /\ nextTime'[l] > now + LOOKAHEAD
           /\ l \notin scheduledNow
           /\ audioNow' = audioNow]_vars

\* After a suspension and with the clock far past the melody's nextTime, a
\* tick has scheduled the melody once, starting at the clock.
C30_Witness ==
  /\ resumed
  /\ audioNow = 7975
  /\ "melody" \in scheduledNow
  /\ nextTime["melody"] = audioNow + 1500 + (10 - engineAudioState.musicDensity) * 450

\* C26: at most one callback of the visual loop is pending, a timer or a
\* display callback, and none while the loop is paused.
C26_SingleLoop ==
  /\ Cardinality(pendingRafs) + Cardinality(pendingTimeouts) <= 1
  /\ isPaused => pendingRafs = {} /\ pendingTimeouts = {}
  /\ \A c \in pendingRafs \cup pendingTimeouts : c.cur

\* The timer of a delayed tick has fired and its display callback is the
\* one thing pending, after the loop has already drawn.
C26_Witness ==
  /\ ~isPaused /\ rendererLive
  /\ timeoutId /\ rafId
  /\ Cardinality(pendingRafs) = 1 /\ pendingTimeouts = {}
  /\ curve.stepCount > 0

\* C21: the L shortcut unlocks every parameter when some lock is set and
\* locks every parameter when none is.
C21_LTogglesAllLocks ==
  [][lastKey' = "L" =>
       IF \E p \in LockParams : locks[p]
       THEN \A p \in LockParams : ~locks'[p]
       ELSE \A p \in LockParams : locks'[p]]_vars

\* C24: the root note stays within 48..72; a tick moves it by at most one
\* semitone, and only when the accumulator reaches 1 on that tick, and
\* then leaves the accumulator below 1.
C24_RootDrift ==
  [][/\ rootMidi \in 48..72 /\ rootMidi' \in 48..72
     /\ rootMidi' - rootMidi \in {-1, 0, 1}
     /\ LET reached == rootDriftAcc + 800 +
                         (IF engineConfig.spiralFamily = "archimedean"
                          THEN 30 * engineConfig.archA
                          ELSE IF engineConfig.spiralFamily = "parametric"
                          THEN 5 * engineConfig.lissPhase
                          ELSE 2 * engineConfig.angleChange) >= ONE
        IN  /\ rootMidi' # rootMidi => reached
            /\ reached => rootDriftAcc' < ONE /\ rootDriftAcc' < rootDriftAcc
            /\ ~reached => rootDriftAcc' > rootDriftAcc]_vars

\* The root has drifted to the top of the range, and the tick that crossed
\* 1 last left a remainder in the accumulator.
C24_Witness ==
  /\ rootMidi = 72
  /\ rootDriftAcc > 0
  /\ rootDriftAcc < driftIncrement(engineConfig)

\* C25: isBeat() declares a beat only when the history holds at least 10
\* samples, at least 200 ms have passed since the last declared beat, the
\* mean of the samples other than the latest exceeds the noise floor 0.02
\* and the latest exceeds 1.5 times that mean; so two declared beats are at
\* least 200 ms apart, and the history never holds more than 60 samples.
C25_BeatDetection ==
  /\ [](Len(energyHistory) <= 60)
  /\ [](prevBeatTime > 0 => lastBeatTime - prevBeatTime >= 200)
  /\ [][beat' =>
          /\ Len(energyHistory') >= 10
          /\ wallNow' - lastBeatTime >= 200
          /\ lastBeatTime' = wallNow'
          /\ LET h == energyHistory'
                 n == Len(h) - 1
                 total == sumOf(SubSeq(h, 1, n))
             IN  /\ 1000 * total > 20 * 1000 * n
                 /\ 10 * h[Len(h)] * n > 15 * total]_vars

\* Two beats exactly 200 ms apart, the second on a full history.
C25_Witness ==
  /\ beat
  /\ prevBeatTime > 0
  /\ lastBeatTime - prevBeatTime = 200
  /\ lastBeatTime = wallNow
  /\ Len(energyHistory) = 60

\* C29: once no setSource call is awaiting any more, at most one source node
\* is connected to the analyser and only that source's tracks are live; and
\* when disconnectReactive, mode off or dispose was the last request, no
\* source is connected and no microphone track is live.
C29_OneSourceWhenSettled ==
  pendingSources = {} =>
    /\ Cardinality(connected) <= 1
    /\ liveTracks \subseteq connected
    /\ lastRequest \in {"disconnect", "off", "dispose"} =>
         connected = {} /\ liveTracks = {}
====
